---- MODULE Spec2Model ----
(***************************************************************************)
(* Chatbot backend: IntentAnalyzer (app/agent/intent_analyzer.py),         *)
(* AgentManager (app/agent/agent_manager.py), the conversation store       *)
(* (app/database/supabase_client.py) and the channel adapters' message     *)
(* handlers (app/line_bot/line_bot.py, app/telegram_bot/telegram_bot.py).  *)
(*                                                                         *)
(* Encoding of Python values:                                              *)
(*   str   a sequence of one-character strings, <<"h","i">>                *)
(*   list  a sequence                                                      *)
(*   dict  a record; a key the dict lacks is a field the record lacks      *)
(*   None  NoneStr where a str is expected, NoneList where a list is       *)
(*         expected, NoneDict where a dict is expected, NoneName for a     *)
(*         tool name. No str, list or dict of the model equals them.       *)
(***************************************************************************)
EXTENDS Integers, Sequences, FiniteSets, TLC

VARIABLES
    max_context_length,  \* AgentManager.max_context_length
    conversation_state,  \* the state the driver of the exchange chain holds
    turns,               \* every turn of the successful exchanges so far, in order
    exchanges,           \* number of successful exchanges so far
    call,                \* observation of the last process_message call
    msg,                 \* the message drawn for the classifier
    store,               \* the rows of the "conversations" table
    store_up,            \* whether the SupabaseClient has a backend (self.supabase)
    req,                 \* the in-flight adapter requests, by request id
    chat_states,         \* telegram_gas_agent.chat_states: the ChatState of each chat id
    clients,             \* the configuration of the external clients and the webhook receivers
    oa                   \* the OpenAIAssistant, the API behind it and its process_message call

vars == <<max_context_length, conversation_state, turns, exchanges, call, msg,
          store, store_up, req, clients, oa, chat_states>>

-----------------------------------------------------------------------------
(* Bounds *)

MaxN == 3           \* max_context_length ranges over 0..MaxN
MaxExchanges == 2   \* exchanges fed back in one chain
MaxStart == 1       \* length of the contexts a chain may start from, up to MaxN + MaxStart
MaxFragments == 3   \* fragments concatenated into a classifier input
MaxUpper == 2       \* letters upper-cased in a case variant of a phrase

-----------------------------------------------------------------------------
(* Python values *)

NoneStr == <<"None">>
NoneList == <<[none |-> TRUE]>>
NoneDict == [none |-> TRUE]
NoneName == "None"

\* dict.get(key, default)
DictGet(d, key, default) == IF key \in DOMAIN d THEN d[key] ELSE default

\* lst[start:] for a start that may be negative
SliceFrom(lst, start) ==
    LET n == Len(lst)
        from == IF start < 0
                THEN (IF n + start < 0 THEN 0 ELSE n + start)
                ELSE (IF start > n THEN n ELSE start)
    IN SubSeq(lst, from + 1, n)

UpperToLower ==
    [c \in {"A","B","C","D","E","F","G","H","I","J","K","L","M",
            "N","O","P","Q","R","S","T","U","V","W","X","Y","Z"} |->
       CASE c = "A" -> "a" [] c = "B" -> "b" [] c = "C" -> "c" [] c = "D" -> "d"
         [] c = "E" -> "e" [] c = "F" -> "f" [] c = "G" -> "g" [] c = "H" -> "h"
         [] c = "I" -> "i" [] c = "J" -> "j" [] c = "K" -> "k" [] c = "L" -> "l"
         [] c = "M" -> "m" [] c = "N" -> "n" [] c = "O" -> "o" [] c = "P" -> "p"
         [] c = "Q" -> "q" [] c = "R" -> "r" [] c = "S" -> "s" [] c = "T" -> "t"
         [] c = "U" -> "u" [] c = "V" -> "v" [] c = "W" -> "w" [] c = "X" -> "x"
         [] c = "Y" -> "y" [] c = "Z" -> "z"]

LowerChar(c) == IF c \in DOMAIN UpperToLower THEN UpperToLower[c] ELSE c

\* str.lower()
StrLower(s) == [i \in 1..Len(s) |-> LowerChar(s[i])]

\* needle in haystack
StrContains(haystack, needle) ==
    \E i \in 0..(Len(haystack) - Len(needle)) :
        \A j \in 1..Len(needle) : haystack[i + j] = needle[j]

-----------------------------------------------------------------------------
(* Regular expressions, as re.search applies them without MULTILINE or     *)
(* DOTALL and with IGNORECASE: ^ is the start of the string, $ is the end  *)
(* of the string or the place before a final newline, . is any character   *)
(* but a newline, \s is a whitespace character.                            *)

IsSpace(c) == c \in {" ", "\t", "\n", "\r", "\f"}

\* $ after the first i characters of s
AtEnd(s, i) == i = Len(s) \/ (i = Len(s) - 1 /\ s[Len(s)] = "\n")

\* ^literal under IGNORECASE
StartsWithLiteral(s, literal) ==
    /\ Len(s) >= Len(literal)
    /\ StrLower(SubSeq(s, 1, Len(literal))) = StrLower(literal)

\* r'^word\s.+\?$'
SearchWordThenQuestion(word, s) ==
    LET w == Len(word) IN
    /\ StartsWithLiteral(s, word)
    /\ Len(s) > w
    /\ IsSpace(s[w + 1])
    /\ \E q \in (w + 3)..Len(s) :
          /\ s[q] = "?"
          /\ AtEnd(s, q)
          /\ \A i \in (w + 2)..(q - 1) : s[i] # "\n"

\* r'.+\?$'
SearchAnyThenQuestion(s) ==
    \E q \in 2..Len(s) : s[q] = "?" /\ AtEnd(s, q) /\ s[q - 1] # "\n"

\* r'^phrase', a pattern that asks for nothing after the phrase
SearchPhraseOnly(phrase, s) == StartsWithLiteral(s, phrase)

\* r'^phrase\s.+'
SearchPhraseThenAny(phrase, s) ==
    LET w == Len(phrase) IN
    /\ StartsWithLiteral(s, phrase)
    /\ Len(s) >= w + 2
    /\ IsSpace(s[w + 1])
    /\ s[w + 2] # "\n"

\* r'^phrase$'
SearchExact(phrase, s) ==
    \/ (Len(s) = Len(phrase) /\ StartsWithLiteral(s, phrase))
    \/ (Len(s) = Len(phrase) + 1 /\ StartsWithLiteral(s, phrase) /\ s[Len(s)] = "\n")

-----------------------------------------------------------------------------
(* IntentAnalyzer *)

\* the interrogative words of question_patterns[0..6]; the eighth pattern is r'.+\?$'
question_words ==
    << <<"w","h","a","t">>, <<"h","o","w">>, <<"w","h","y">>, <<"w","h","e","n">>,
       <<"w","h","e","r","e">>, <<"w","h","o">>, <<"c","a","n">> >>

request_phrases ==
    << <<"p","l","e","a","s","e">>, <<"c","o","u","l","d"," ","y","o","u">>,
       <<"c","a","n"," ","y","o","u">>, <<"w","o","u","l","d"," ","y","o","u">>,
       <<"I"," ","n","e","e","d">>, <<"I"," ","w","a","n","t">> >>

greeting_phrases ==
    << <<"h","i">>, <<"h","e","l","l","o">>, <<"h","e","y">>,
       <<"g","o","o","d"," ","m","o","r","n","i","n","g">>,
       <<"g","o","o","d"," ","a","f","t","e","r","n","o","o","n">>,
       <<"g","o","o","d"," ","e","v","e","n","i","n","g">> >>

farewell_phrases ==
    << <<"b","y","e">>, <<"g","o","o","d","b","y","e">>, <<"s","e","e"," ","y","o","u">>,
       <<"t","a","l","k"," ","t","o"," ","y","o","u"," ","l","a","t","e","r">>,
       <<"f","a","r","e","w","e","l","l">> >>

devin_keywords ==
    << <<"c","o","d","e">>, <<"p","r","o","g","r","a","m","m","i","n","g">>,
       <<"d","e","v","e","l","o","p">>, <<"b","u","i","l","d">>,
       <<"c","r","e","a","t","e">>, <<"g","e","n","e","r","a","t","e">>,
       <<"a","n","a","l","y","z","e">>, <<"d","e","b","u","g">>, <<"f","i","x">>,
       <<"i","m","p","l","e","m","e","n","t">>, <<"d","e","p","l","o","y">>,
       <<"a","u","t","o","m","a","t","e">> >>

MatchesQuestion(message) ==
    \/ \E i \in DOMAIN question_words : SearchWordThenQuestion(question_words[i], message)
    \/ SearchAnyThenQuestion(message)

MatchesRequest(message) ==
    \E i \in DOMAIN request_phrases : SearchPhraseThenAny(request_phrases[i], message)

MatchesGreeting(message) ==
    \E i \in DOMAIN greeting_phrases : SearchExact(greeting_phrases[i], message)

MatchesFarewell(message) ==
    \E i \in DOMAIN farewell_phrases : SearchExact(farewell_phrases[i], message)

\* a rule order in which the request group is tried before the question group
DetermineIntentTypeRequestFirst(message) ==
    IF MatchesRequest(message) THEN "request"
    ELSE IF MatchesQuestion(message) THEN "question"
    ELSE IF MatchesGreeting(message) THEN "greeting"
    ELSE IF MatchesFarewell(message) THEN "farewell"
    ELSE "general"

\* _determine_intent_type(message): message is already lower-cased
DetermineIntentType(message) ==
    IF MatchesQuestion(message) THEN "question"
    ELSE IF MatchesRequest(message) THEN "request"
    ELSE IF MatchesGreeting(message) THEN "greeting"
    ELSE IF MatchesFarewell(message) THEN "farewell"
    ELSE "general"

\* _requires_devin_api(message)
RequiresDevinApi(message) ==
    \E i \in DOMAIN devin_keywords : StrContains(message, devin_keywords[i])

\* a tool choice that tests "debug"/"fix" before "analyze"
DetermineToolNameDebugFirst(message) ==
    IF StrContains(message, <<"c","o","d","e">>)
          \/ StrContains(message, <<"p","r","o","g","r","a","m","m","i","n","g">>)
    THEN "code_assistant"
    ELSE IF StrContains(message, <<"d","e","b","u","g">>)
               \/ StrContains(message, <<"f","i","x">>)
    THEN "code_debugger"
    ELSE IF StrContains(message, <<"a","n","a","l","y","z","e">>)
    THEN "code_analyzer"
    ELSE "general_assistant"

\* a _determine_tool_name that sends "automate" to the script executor
DetermineToolNameWithGas(message) ==
    IF StrContains(message, <<"a","u","t","o","m","a","t","e">>) THEN "gas_executor"
    ELSE "general_assistant"

\* _determine_tool_name(message)
DetermineToolName(message) ==
    IF StrContains(message, <<"c","o","d","e">>)
          \/ StrContains(message, <<"p","r","o","g","r","a","m","m","i","n","g">>)
    THEN "code_assistant"
    ELSE IF StrContains(message, <<"a","n","a","l","y","z","e">>)
    THEN "code_analyzer"
    ELSE IF StrContains(message, <<"d","e","b","u","g">>)
               \/ StrContains(message, <<"f","i","x">>)
    THEN "code_debugger"
    ELSE "general_assistant"

\* _extract_parameters(message)
ExtractParameters(message) == [query |-> message]

\* the empty dict {}
EmptyDict == <<>>

\* what stands for an exception that leaves the called function
Propagated == [raised |-> TRUE]

\* an analyze without its except branch
AnalyzeNoCatch(message, context) ==
    IF message = NoneStr THEN Propagated
    ELSE
    LET message_lower == StrLower(message)
        intent_type == DetermineIntentType(message_lower)
        requires_devin_api == RequiresDevinApi(message_lower)
        parameters == IF requires_devin_api THEN ExtractParameters(message) ELSE EmptyDict
        tool_name == IF requires_devin_api THEN DetermineToolName(message_lower) ELSE NoneName
    IN [type |-> intent_type,
        requires_devin_api |-> requires_devin_api,
        tool_name |-> tool_name,
        parameters |-> parameters,
        raw_message |-> message]

\* an analyze that looks for the tool keywords in the message as typed
AnalyzeRawKeywords(message, context) ==
    IF message = NoneStr
    THEN [type |-> "general", requires_devin_api |-> FALSE, raw_message |-> message]
    ELSE
    LET message_lower == StrLower(message)
        intent_type == DetermineIntentType(message_lower)
        requires_devin_api == RequiresDevinApi(message)
        parameters == IF requires_devin_api THEN ExtractParameters(message) ELSE EmptyDict
        tool_name == IF requires_devin_api THEN DetermineToolName(message_lower) ELSE NoneName
    IN [type |-> intent_type,
        requires_devin_api |-> requires_devin_api,
        tool_name |-> tool_name,
        parameters |-> parameters,
        raw_message |-> message]

\* IntentAnalyzer.analyze(message, context). A message that is no str (None)
\* makes message.lower() raise, and the except branch returns the default
\* intent; on a str no step of the try block raises.
Analyze(message, context) ==
    IF message = NoneStr
    THEN [type |-> "general", requires_devin_api |-> FALSE, raw_message |-> message]
    ELSE
    LET message_lower == StrLower(message)
        intent_type == DetermineIntentType(message_lower)
        requires_devin_api == RequiresDevinApi(message_lower)
        parameters == IF requires_devin_api THEN ExtractParameters(message) ELSE EmptyDict
        tool_name == IF requires_devin_api THEN DetermineToolName(message_lower) ELSE NoneName
    IN [type |-> intent_type,
        requires_devin_api |-> requires_devin_api,
        tool_name |-> tool_name,
        parameters |-> parameters,
        raw_message |-> message]

-----------------------------------------------------------------------------
(* AgentManager: the fixed reply strings *)

\* "Sorry, I encountered an error while processing your message."
ProcessingErrorMessage ==
    <<"S","o","r","r","y",","," ","I"," ","e","n","c","o","u","n","t","e","r","e","d",
      " ","a","n"," ","e","r","r","o","r"," ","w","h","i","l","e"," ","p","r","o","c",
      "e","s","s","i","n","g"," ","y","o","u","r"," ","m","e","s","s","a","g","e",".">>

\* "Hello! How can I assist you today?"
GreetingReply ==
    <<"H","e","l","l","o","!"," ","H","o","w"," ","c","a","n"," ","I"," ","a","s","s",
      "i","s","t"," ","y","o","u"," ","t","o","d","a","y","?">>

\* "Goodbye! Feel free to message me anytime you need assistance."
FarewellReply ==
    <<"G","o","o","d","b","y","e","!"," ","F","e","e","l"," ","f","r","e","e"," ","t",
      "o"," ","m","e","s","s","a","g","e"," ","m","e"," ","a","n","y","t","i","m","e",
      " ","y","o","u"," ","n","e","e","d"," ","a","s","s","i","s","t","a","n","c","e",
      ".">>

\* "I'm here to help. What would you like to know or do?"
FallbackReply ==
    <<"I","'","m"," ","h","e","r","e"," ","t","o"," ","h","e","l","p","."," ","W","h",
      "a","t"," ","w","o","u","l","d"," ","y","o","u"," ","l","i","k","e"," ","t","o",
      " ","k","n","o","w"," ","o","r"," ","d","o","?">>

\* "I'm sorry, I couldn't generate a proper response. Please try again."
GenerateErrorReply ==
    <<"I","'","m"," ","s","o","r","r","y",","," ","I"," ","c","o","u","l","d","n","'",
      "t"," ","g","e","n","e","r","a","t","e"," ","a"," ","p","r","o","p","e","r"," ",
      "r","e","s","p","o","n","s","e","."," ","P","l","e","a","s","e"," ","t","r","y",
      " ","a","g","a","i","n",".">>

\* "I couldn't complete the operation."
NoContentReply ==
    <<"I"," ","c","o","u","l","d","n","'","t"," ","c","o","m","p","l","e","t","e"," ",
      "t","h","e"," ","o","p","e","r","a","t","i","o","n",".">>

\* "I encountered an error while trying to use the required tools."
ToolErrorReply ==
    <<"I"," ","e","n","c","o","u","n","t","e","r","e","d"," ","a","n"," ","e","r","r",
      "o","r"," ","w","h","i","l","e"," ","t","r","y","i","n","g"," ","t","o"," ","u",
      "s","e"," ","t","h","e"," ","r","e","q","u","i","r","e","d"," ","t","o","o","l",
      "s",".">>

\* "Based on your question, I would say..."
QuestionReply ==
    <<"B","a","s","e","d"," ","o","n"," ","y","o","u","r"," ","q","u","e","s","t","i",
      "o","n",","," ","I"," ","w","o","u","l","d"," ","s","a","y",".",".",".">>

\* "I'll help you with that request..."
RequestReply ==
    <<"I","'","l","l"," ","h","e","l","p"," ","y","o","u"," ","w","i","t","h"," ","t",
      "h","a","t"," ","r","e","q","u","e","s","t",".",".",".">>

\* "Telegram Execution "
TitlePrefix ==
    <<"T","e","l","e","g","r","a","m"," ","E","x","e","c","u","t","i","o","n"," ">>

\* the fixed Japanese text that opens the reply to a successful script run
\* (agent_manager.py line 238); its characters are not modelled one by one
GasSuccessPrefix == <<"[script run succeeded, result:]">>

\* the fixed Japanese text that opens the reply to a failed script run (line 240)
GasFailurePrefix == <<"[script run failed:]">>

\* the default of response.get('result', ...) (line 238)
GasNoResult == <<"[no result]">>

\* the default of response.get('error', ...) (line 240)
GasNoError == <<"[no error detail]">>

\* the fixed Japanese reply when the script executor raises (line 243)
GasErrorReply == <<"[error while running the script, try again]">>

-----------------------------------------------------------------------------
(* AgentManager *)

\* an _update_context whose updated_context is the caller's list itself, not a
\* copy of it
UpdateContextInPlace(context, message, role) ==
    IF context = NoneList
    THEN [raises |-> TRUE, arg |-> context, ret |-> context]
    ELSE LET lists0 == [caller |-> context]
             lists1 == [lists0 EXCEPT !.caller =
                            Append(@, [role |-> role, content |-> message])]
         IN [raises |-> FALSE,
             arg |-> lists1.caller,
             ret |-> IF Len(lists1.caller) > max_context_length
                     THEN SliceFrom(lists1.caller, 0 - max_context_length)
                     ELSE lists1.caller]

\* _update_context(context, message, role), statement by statement over the
\* list objects it touches: `caller` is the list it was given, `copy` the list
\* that context.copy() makes.
\*   raises: context.copy() fails (context is None)
\*   arg:    the items of the caller's list after the call
\*   ret:    the items of the returned list
UpdateContext(context, message, role) ==
    IF context = NoneList
    THEN [raises |-> TRUE, arg |-> context, ret |-> context]
    ELSE LET lists0 == [caller |-> context]
             lists1 == [caller |-> lists0.caller, copy |-> lists0.caller]
             lists2 == [lists1 EXCEPT !.copy =
                            Append(@, [role |-> role, content |-> message])]
         IN [raises |-> FALSE,
             arg |-> lists2.caller,
             ret |-> IF Len(lists2.copy) > max_context_length
                     THEN SliceFrom(lists2.copy, 0 - max_context_length)
                     ELSE lists2.copy]

\* a _create_updated_state that keeps the type of the intent only
CreateUpdatedStateTypeOnly(user_id, context, intent) ==
    [user_id |-> user_id, context |-> context, intent |-> [type |-> intent.type]]

\* _create_updated_state(user_id, context, intent)
CreateUpdatedState(user_id, context, intent) ==
    [user_id |-> user_id, context |-> context, intent |-> intent]

\* what the injected tool executor does when called: it raises, or returns a
\* dict with a content, a dict without one, a dict whose content is None or
\* empty, or None
ToolOutcomes ==
    { [kind |-> "raises"],
      [kind |-> "returns", result |-> [content |-> <<"o","k">>]],
      [kind |-> "returns", result |-> [status |-> <<"o","k">>]],
      [kind |-> "returns", result |-> [content |-> NoneStr]],
      [kind |-> "returns", result |-> [content |-> <<>>]],
      [kind |-> "returns", result |-> NoneDict] }

\* what the injected script executor does when called
GasOutcomes ==
    { [kind |-> "raises"],
      [kind |-> "returns", result |-> [success |-> TRUE, result |-> <<"4","2">>]],
      [kind |-> "returns", result |-> [success |-> FALSE, error |-> <<"e","r","r">>]] }

\* a _handle_tool_intent that lets the executor's exception escape to its caller
HandleToolIntentNoCatch(intent, context, tool) ==
    LET tool_call == [tool_name |-> DictGet(intent, "tool_name", "general_assistant"),
                      parameters |-> DictGet(intent, "parameters", EmptyDict),
                      context |-> context]
    IN IF tool.kind = "raises" \/ tool.result = NoneDict
       THEN [raises |-> TRUE, reply |-> NoneStr, tool_calls |-> <<tool_call>>]
       ELSE [raises |-> FALSE,
             reply |-> DictGet(tool.result, "content", NoContentReply),
             tool_calls |-> <<tool_call>>]

\* _handle_tool_intent(intent, context), the executor behaving as `tool`
HandleToolIntent(intent, context, tool) ==
    LET tool_call == [tool_name |-> DictGet(intent, "tool_name", "general_assistant"),
                      parameters |-> DictGet(intent, "parameters", EmptyDict),
                      context |-> context]
    IN IF tool.kind = "raises" \/ tool.result = NoneDict
       THEN [raises |-> FALSE, reply |-> ToolErrorReply, tool_calls |-> <<tool_call>>]
       ELSE [raises |-> FALSE,
             reply |-> DictGet(tool.result, "content", NoContentReply),
             tool_calls |-> <<tool_call>>]

\* the backquote character (U+0060), which a string of this module cannot hold
Backquote == "backquote"

CodeFence == <<Backquote, Backquote, Backquote>>

\* the places where a run of three backquotes (the code fence) starts in script
FencePositions(script) ==
    {i \in 1..(Len(script) - 2) : SubSeq(script, i, i + 2) = CodeFence}

Minimum(S) == CHOOSE x \in S : \A y \in S : x <= y

\* the second part of script split at the code fence when the split has at
\* least three parts, else script
FirstCodeBlock(script) ==
    LET P == FencePositions(script) IN
    IF P = {} THEN script
    ELSE LET first == Minimum(P)
             rest == {p \in P : p >= first + 3}
         IN IF rest = {} THEN script
            ELSE SubSeq(script, first + 3, Minimum(rest) - 1)

\* _handle_gas_intent(intent, context), the script executor behaving as `gas`;
\* on a raw_message that is no str the fence test raises before the call
HandleGasIntent(intent, context, gas) ==
    IF DictGet(intent, "raw_message", <<>>) = NoneStr
    THEN [reply |-> GasErrorReply, gas_calls |-> <<>>]
    ELSE
    LET script == FirstCodeBlock(DictGet(intent, "raw_message", <<>>))
        gas_call == [script |-> script, intent_type |-> DictGet(intent, "type", "script")]
    IN IF gas.kind = "raises"
       THEN [reply |-> GasErrorReply, gas_calls |-> <<gas_call>>]
       ELSE IF DictGet(gas.result, "success", FALSE)
       THEN [reply |-> GasSuccessPrefix \o DictGet(gas.result, "result", GasNoResult),
             gas_calls |-> <<gas_call>>]
       ELSE [reply |-> GasFailurePrefix \o DictGet(gas.result, "error", GasNoError),
             gas_calls |-> <<gas_call>>]

\* a _generate_response that branches on the intent type before the tool flag
GenerateResponseTypeFirst(message, user_id, intent, context, tool, gas) ==
    IF intent = NoneDict
    THEN [reply |-> GenerateErrorReply, tool_calls |-> <<>>, gas_calls |-> <<>>]
    ELSE LET intent_type == DictGet(intent, "type", "general") IN
         IF intent_type = "question"
         THEN [reply |-> QuestionReply, tool_calls |-> <<>>, gas_calls |-> <<>>]
         ELSE IF intent_type = "request"
         THEN [reply |-> RequestReply, tool_calls |-> <<>>, gas_calls |-> <<>>]
         ELSE IF intent_type = "greeting"
         THEN [reply |-> GreetingReply, tool_calls |-> <<>>, gas_calls |-> <<>>]
         ELSE IF intent_type = "farewell"
         THEN [reply |-> FarewellReply, tool_calls |-> <<>>, gas_calls |-> <<>>]
         ELSE IF DictGet(intent, "requires_devin_api", FALSE)
         THEN LET r == HandleToolIntent(intent, context, tool)
              IN [reply |-> r.reply, tool_calls |-> r.tool_calls, gas_calls |-> <<>>]
         ELSE [reply |-> FallbackReply, tool_calls |-> <<>>, gas_calls |-> <<>>]

\* a _generate_response whose greeting and farewell replies are exchanged
GenerateResponseSwapped(message, user_id, intent, context, tool, gas) ==
    IF intent = NoneDict
    THEN [reply |-> GenerateErrorReply, tool_calls |-> <<>>, gas_calls |-> <<>>]
    ELSE IF DictGet(intent, "requires_devin_api", FALSE)
    THEN IF DictGet(intent, "tool_name", NoneName) = "gas_executor"
         THEN LET g == HandleGasIntent(intent, context, gas)
              IN [reply |-> g.reply, tool_calls |-> <<>>, gas_calls |-> g.gas_calls]
         ELSE LET r == HandleToolIntent(intent, context, tool)
              IN IF r.raises
                 THEN [reply |-> GenerateErrorReply, tool_calls |-> r.tool_calls,
                       gas_calls |-> <<>>]
                 ELSE [reply |-> r.reply, tool_calls |-> r.tool_calls, gas_calls |-> <<>>]
    ELSE LET intent_type == DictGet(intent, "type", "general") IN
         IF intent_type = "question"
         THEN [reply |-> QuestionReply, tool_calls |-> <<>>, gas_calls |-> <<>>]
         ELSE IF intent_type = "request"
         THEN [reply |-> RequestReply, tool_calls |-> <<>>, gas_calls |-> <<>>]
         ELSE IF intent_type = "greeting"
         THEN [reply |-> FarewellReply, tool_calls |-> <<>>, gas_calls |-> <<>>]
         ELSE IF intent_type = "farewell"
         THEN [reply |-> GreetingReply, tool_calls |-> <<>>, gas_calls |-> <<>>]
         ELSE [reply |-> FallbackReply, tool_calls |-> <<>>, gas_calls |-> <<>>]

\* _generate_response(message, user_id, intent, context): intent.get raises on
\* an intent that is None, and the except branch answers GenerateErrorReply
GenerateResponse(message, user_id, intent, context, tool, gas) ==
    IF intent = NoneDict
    THEN [reply |-> GenerateErrorReply, tool_calls |-> <<>>, gas_calls |-> <<>>]
    ELSE IF DictGet(intent, "requires_devin_api", FALSE)
    THEN IF DictGet(intent, "tool_name", NoneName) = "gas_executor"
         THEN LET g == HandleGasIntent(intent, context, gas)
              IN [reply |-> g.reply, tool_calls |-> <<>>, gas_calls |-> g.gas_calls]
         ELSE LET r == HandleToolIntent(intent, context, tool)
              IN IF r.raises
                 THEN [reply |-> GenerateErrorReply, tool_calls |-> r.tool_calls,
                       gas_calls |-> <<>>]
                 ELSE [reply |-> r.reply, tool_calls |-> r.tool_calls, gas_calls |-> <<>>]
    ELSE LET intent_type == DictGet(intent, "type", "general") IN
         IF intent_type = "question"
         THEN [reply |-> QuestionReply, tool_calls |-> <<>>, gas_calls |-> <<>>]
         ELSE IF intent_type = "request"
         THEN [reply |-> RequestReply, tool_calls |-> <<>>, gas_calls |-> <<>>]
         ELSE IF intent_type = "greeting"
         THEN [reply |-> GreetingReply, tool_calls |-> <<>>, gas_calls |-> <<>>]
         ELSE IF intent_type = "farewell"
         THEN [reply |-> FarewellReply, tool_calls |-> <<>>, gas_calls |-> <<>>]
         ELSE [reply |-> FallbackReply, tool_calls |-> <<>>, gas_calls |-> <<>>]

\* what the injected intent analyzer does: "default" is IntentAnalyzer; the
\* others are analyzers that raise, return None, or route to the script executor
AnalyzerKinds == {"default", "raises", "returns_none", "gas_intent"}

\* the intent an analyzer of the given kind returns
AnalyzerIntent(analyzer, message, context) ==
    CASE analyzer = "default" -> Analyze(message, context)
      [] analyzer = "returns_none" -> NoneDict
      [] analyzer = "gas_intent" ->
            [type |-> "general", requires_devin_api |-> TRUE, tool_name |-> "gas_executor",
             parameters |-> EmptyDict, raw_message |-> message]

\* the try block of process_message (lines 69-84).
\*   ok:             no step raised
\*   caller_context: the items of the caller's context list afterwards
\*   response_content, updated_state, intent, tool_calls, gas_calls: as computed
TryProcessMessage(message, user_id, conversation_state_, analyzer, tool, gas) ==
    LET nothing == [ok |-> FALSE, caller_context |-> <<>>, response_content |-> NoneStr,
                    updated_state |-> NoneDict, intent |-> NoneDict,
                    tool_calls |-> <<>>, gas_calls |-> <<>>]
    IN
    IF conversation_state_ = NoneDict
    THEN nothing
    ELSE
    LET given == DictGet(conversation_state_, "context", <<>>)
        u1 == UpdateContext(given, message, "user")
    IN  IF u1.raises \/ analyzer = "raises"
        THEN [nothing EXCEPT !.caller_context = u1.arg]
        ELSE
        LET context == u1.ret
            intent == AnalyzerIntent(analyzer, message, context)
            g == GenerateResponse(message, user_id, intent, context, tool, gas)
            u2 == UpdateContext(context, g.reply, "assistant")
        IN [ok |-> TRUE,
            caller_context |-> u1.arg,
            response_content |-> g.reply,
            updated_state |-> CreateUpdatedState(user_id, u2.ret, intent),
            intent |-> intent,
            tool_calls |-> g.tool_calls,
            gas_calls |-> g.gas_calls]

\* a process_message without its except branch: a failing step propagates
ProcessMessageNoCatch(message, user_id, conversation_state_, analyzer, tool, gas) ==
    LET t == TryProcessMessage(message, user_id, conversation_state_, analyzer, tool, gas)
    IN [raised |-> ~t.ok, failed |-> ~t.ok,
        result |-> IF t.ok
                   THEN [message |-> t.response_content,
                         conversation_state |-> t.updated_state]
                   ELSE NoneDict,
        intent |-> t.intent, generated |-> t.response_content,
        tool_calls |-> t.tool_calls, gas_calls |-> t.gas_calls,
        tool |-> IF t.tool_calls = <<>> THEN NoneDict ELSE tool,
        caller_context |-> t.caller_context]

\* process_message(message, user_id, conversation_state), the injected
\* analyzer, tool executor and script executor behaving as given.
\*   raised:         an exception left process_message
\*   failed:         the except branch was taken
\*   result:         the returned dict
\*   generated:      what _generate_response returned
\*   tool:           what the tool executor did, when it was called
\*   caller_context: the items of the caller's context list after the call
ProcessMessage(message, user_id, conversation_state_, analyzer, tool, gas) ==
    LET t == TryProcessMessage(message, user_id, conversation_state_, analyzer, tool, gas)
    IN [raised |-> FALSE, failed |-> ~t.ok,
        result |-> IF t.ok
                   THEN [message |-> t.response_content,
                         conversation_state |-> t.updated_state]
                   ELSE [message |-> ProcessingErrorMessage,
                         conversation_state |-> conversation_state_],
        intent |-> t.intent, generated |-> t.response_content,
        tool_calls |-> t.tool_calls, gas_calls |-> t.gas_calls,
        tool |-> IF t.tool_calls = <<>> THEN NoneDict ELSE tool,
        caller_context |-> t.caller_context]

-----------------------------------------------------------------------------
(* The exchange chain: a driver that feeds each returned state back in *)

UserIds == {"u1"}

\* "Hi"
MsgHi == <<"H","i">>

\* "What time is it?"
MsgWhatTime == <<"W","h","a","t"," ","t","i","m","e"," ","i","s"," ","i","t","?">>

\* "please debug my script"
MsgPleaseDebug ==
    <<"p","l","e","a","s","e"," ","d","e","b","u","g"," ","m","y"," ",
      "s","c","r","i","p","t">>

PipelineMessages == {MsgHi, MsgPleaseDebug, NoneStr}

\* a stored context of the given length
StartContext(length) ==
    [i \in 1..length |->
        [role |-> IF i % 2 = 1 THEN "user" ELSE "assistant", content |-> <<"o","l","d">>]]

\* the states a chain may start from: a context of any length up to
\* MaxN + MaxStart, a state without a context key, a state whose context is
\* None, and None
StartStates ==
    { [user_id |-> "u1", context |-> StartContext(l), intent |-> NoneDict] :
          l \in 0..(MaxN + MaxStart) }
    \cup { [user_id |-> "u1", context |-> NoneList, intent |-> NoneDict] }
    \cup { EmptyDict, NoneDict }

NoCall ==
    [done |-> FALSE, message |-> <<>>, user_id |-> "u1", input_state |-> NoneDict,
     analyzer |-> "default", raised |-> FALSE, failed |-> FALSE, result |-> NoneDict,
     intent |-> NoneDict, tool_calls |-> <<>>, gas_calls |-> <<>>, tool |-> NoneDict,
     caller_context |-> <<>>, input_context |-> <<>>, generated |-> NoneStr]

\* the observation of one call
Observe(message, user_id, conversation_state_, analyzer, r) ==
    [done |-> TRUE, message |-> message, user_id |-> user_id,
     input_state |-> conversation_state_, analyzer |-> analyzer,
     raised |-> r.raised, failed |-> r.failed, result |-> r.result,
     intent |-> r.intent, generated |-> r.generated,
     tool_calls |-> r.tool_calls, gas_calls |-> r.gas_calls,
     tool |-> r.tool, caller_context |-> r.caller_context,
     input_context |-> IF conversation_state_ = NoneDict THEN <<>>
                       ELSE DictGet(conversation_state_, "context", <<>>)]

StateContext(state) ==
    IF state = NoneDict THEN <<>>
    ELSE LET c == DictGet(state, "context", <<>>) IN IF c = NoneList THEN <<>> ELSE c

Init ==
    /\ chat_states = EmptyDict
    /\ clients = NoneDict
    /\ oa = NoneDict
    /\ max_context_length \in 0..MaxN
    /\ conversation_state \in StartStates
    /\ turns = StateContext(conversation_state)
    /\ exchanges = 0
    /\ call = NoCall
    /\ msg = <<>>
    /\ store = <<>>
    /\ store_up = FALSE
    /\ req = <<>>

\* one exchange: process_message on the held state, the returned state kept
Exchange(message, user_id, analyzer, tool, gas) ==
    /\ exchanges < MaxExchanges
    /\ \E r \in {ProcessMessage(message, user_id, conversation_state, analyzer, tool, gas)} :
          /\ call' = Observe(message, user_id, conversation_state, analyzer, r)
          /\ conversation_state' = IF r.raised THEN conversation_state
                                    ELSE r.result.conversation_state
          /\ IF r.failed
             THEN UNCHANGED <<turns, exchanges>>
             ELSE /\ turns' = turns \o << [role |-> "user", content |-> message],
                                          [role |-> "assistant", content |-> r.result.message] >>
                  /\ exchanges' = exchanges + 1
    /\ UNCHANGED <<chat_states, clients, oa, max_context_length, msg, store, store_up, req>>

\* the executor behaviours worth telling apart for a call: the tool executor's
\* matter only when the default analyzer routes the message to a tool, the
\* script executor's only under an analyzer that routes to it
ToolChoices(message, analyzer, outcomes) ==
    IF analyzer = "default" /\ RequiresDevinApi(StrLower(message))
    THEN outcomes
    ELSE {[kind |-> "raises"]}

GasChoices(analyzer, outcomes) ==
    IF analyzer = "gas_intent" THEN outcomes ELSE {[kind |-> "raises"]}

\* the tool executor behaviours of the exchange chain
ChainToolOutcomes ==
    { [kind |-> "raises"], [kind |-> "returns", result |-> [content |-> <<"o","k">>]] }

\* the script executor behaviours of the exchange chain
ChainGasOutcomes ==
    { [kind |-> "returns", result |-> [success |-> TRUE, result |-> <<"4","2">>]] }

Next ==
    /\ exchanges < MaxExchanges
    /\ \E message \in PipelineMessages, user_id \in UserIds, analyzer \in AnalyzerKinds :
        \E tool \in ToolChoices(message, analyzer, ChainToolOutcomes),
           gas \in GasChoices(analyzer, ChainGasOutcomes) :
            Exchange(message, user_id, analyzer, tool, gas)

Spec == Init /\ [][Next]_vars

-----------------------------------------------------------------------------
(* Properties of the exchange chain (specification Spec) *)

Min2(a, b) == IF a < b THEN a ELSE b

LastOf(s) == s[Len(s)]

UserTurn(message) == [role |-> "user", content |-> message]

AssistantTurn(content) == [role |-> "assistant", content |-> content]

\* the context of the state the last call returned
ReturnedContext == call.result.conversation_state.context

\* C1: whatever max_context_length is and however long the context a call
\* starts from, the context of the state a successful process_message returns
\* has at most max_context_length entries.
C1_ContextWithinMax ==
    (call.done /\ ~call.failed) => Len(ReturnedContext) <= max_context_length

\* C2: in a chain started from an empty context, after k successful exchanges
\* the held context has min(2k, max_context_length) entries and is the tail of
\* user-1, assistant-1, ..., user-k, assistant-k.
C2_RoundTrip ==
    (Len(turns) = 2 * exchanges /\ call.done /\ ~call.failed) =>
        LET n == Min2(2 * exchanges, max_context_length)
            c == conversation_state.context
        IN /\ Len(c) = n
           /\ c = SubSeq(turns, Len(turns) - n + 1, Len(turns))
           /\ \A j \in 1..exchanges :
                 turns[2 * j - 1].role = "user" /\ turns[2 * j].role = "assistant"

\* C3: process_message never lets an exception out, and when a step of its
\* pipeline raises it returns the fixed error string with the state it was
\* given, whose context list still has the items it had.
C3_NeverPropagates ==
    call.done =>
        /\ ~call.raised
        /\ call.failed =>
              /\ call.result.message = ProcessingErrorMessage
              /\ call.result.conversation_state = call.input_state
              /\ call.caller_context = call.input_context

\* C3 witness: the analyzer raised after the user turn had been appended to a
\* context that was not empty.
C3_Witness ==
    /\ call.done /\ call.failed /\ call.analyzer = "raises"
    /\ Len(call.input_context) > 0
    /\ call.input_context # NoneList

\* the intent of the last call routes to an external tool
FlagSet ==
    /\ call.intent # NoneDict
    /\ DictGet(call.intent, "requires_devin_api", FALSE)

\* the tool executor was called once, with the intent's tool name and
\* parameters and the context that ends with the user's turn
CalledToolOnce ==
    /\ Len(call.tool_calls) = 1
    /\ call.tool_calls[1].tool_name = call.intent.tool_name
    /\ call.tool_calls[1].parameters = call.intent.parameters
    /\ Len(call.tool_calls[1].context) > 0
    /\ LastOf(call.tool_calls[1].context) = UserTurn(call.message)

\* the reply is the content field of what the tool executor returned, when it
\* returned a dict with one
RepliedWithContent ==
    (/\ call.tool.kind = "returns"
     /\ call.tool.result # NoneDict
     /\ "content" \in DOMAIN call.tool.result)
        => call.result.message = call.tool.result.content

\* C7 as stated: whenever the flag is set the tool executor is called exactly
\* once and its content returned, whenever it is not set it is never called.
C7_AsStated ==
    (call.done /\ ~call.failed /\ call.intent # NoneDict) =>
        IF FlagSet
        THEN CalledToolOnce /\ RepliedWithContent
        ELSE call.tool_calls = <<>>

\* C7 amended: the same, for every intent whose tool_name is not
\* "gas_executor"; an intent with that tool name goes to the script handler,
\* which calls the script executor once when the raw message is a str and
\* not at all when it is not, and the tool executor is not called.
C7_ToolDispatch ==
    (call.done /\ ~call.failed /\ call.intent # NoneDict) =>
        IF FlagSet /\ call.intent.tool_name # "gas_executor"
        THEN CalledToolOnce /\ RepliedWithContent /\ call.gas_calls = <<>>
        ELSE IF FlagSet
        THEN /\ call.tool_calls = <<>>
             /\ Len(call.gas_calls) = IF call.intent.raw_message = NoneStr THEN 0 ELSE 1
        ELSE call.tool_calls = <<>> /\ call.gas_calls = <<>>

\* C7 witness: "please debug my script" is a request and the executor was
\* called with code_debugger.
C7_Witness ==
    /\ call.done /\ ~call.failed
    /\ call.message = MsgPleaseDebug
    /\ call.intent # NoneDict
    /\ call.intent.type = "request"
    /\ Len(call.tool_calls) = 1
    /\ call.tool_calls[1].tool_name = "code_debugger"
    /\ call.tool.kind = "returns"

\* the tool executor was called and raised (or returned None)
ToolRaised ==
    /\ call.tool_calls # <<>>
    /\ (call.tool.kind = "raises" \/ call.tool.result = NoneDict)

\* the analyzer returned None instead of an intent
MalformedIntent == call.done /\ ~call.failed /\ call.intent = NoneDict

\* the reply the dispatcher gives for the error of the last call
ApologyFor ==
    IF ToolRaised THEN ToolErrorReply ELSE GenerateErrorReply

C10_InputNotMutated ==
    call.done => call.caller_context = call.input_context

\* C20: IntentAnalyzer.analyze raises nothing: on a message that is no str it
\* returns the default intent, type "general" with the tool flag false, and
\* process_message then answers with the fixed fallback reply and calls
\* neither the tool executor nor the script executor.
C20_AnalyzeNeverRaises ==
    (call.done /\ call.analyzer = "default" /\ call.message = NoneStr /\ ~call.failed) =>
        /\ ~call.raised
        /\ call.intent = [type |-> "general", requires_devin_api |-> FALSE,
                          raw_message |-> NoneStr]
        /\ call.result.message = FallbackReply
        /\ call.tool_calls = <<>> /\ call.gas_calls = <<>>
        /\ call.result.conversation_state.intent = call.intent

\* C20 witness: a message that is None went through the default analyzer and
\* was answered with the fallback reply.
C20_Witness ==
    /\ call.done /\ ~call.failed
    /\ call.analyzer = "default" /\ call.message = NoneStr
    /\ call.result.message = FallbackReply
    /\ Len(ReturnedContext) > 0
    /\ LastOf(ReturnedContext) = AssistantTurn(FallbackReply)

\* the last n entries of s, all of s when it has no more than n
LastN(s, n) == IF Len(s) <= n THEN s ELSE SubSeq(s, Len(s) - n + 1, Len(s))

\* C15: a successful process_message returns a dict with the keys message and
\* conversation_state; message is what _generate_response returned, the
\* state's user_id is the user_id argument, and the state's context is the
\* input context, then the user turn, then the assistant turn, cut to its last
\* max_context_length entries.
C15_SuccessResult ==
    (call.done /\ ~call.failed) =>
        /\ DOMAIN call.result = {"message", "conversation_state"}
        /\ call.result.message = call.generated
        /\ call.result.conversation_state.user_id = call.user_id
        /\ ReturnedContext
              = LastN(call.input_context
                         \o << UserTurn(call.message), AssistantTurn(call.generated) >>,
                      max_context_length)

\* C10 witness: a successful call on a context that was not empty, which
\* appended twice.
C10_Witness ==
    /\ call.done /\ ~call.failed
    /\ Len(call.input_context) > 0
    /\ Len(ReturnedContext) > 0

-----------------------------------------------------------------------------
(* The classifier and dispatcher on one message: the message is drawn from  *)
(* Messages and process_message runs once, with the default analyzer, on    *)
(* the empty state the store returns for a new user.                       *)

\* max_context_length: int = 10
DefaultMaxContextLength == 10

\* the upper-case letter of a lower-case one, other characters unchanged
UpperChar(c) ==
    IF \E u \in DOMAIN UpperToLower : UpperToLower[u] = c
    THEN CHOOSE u \in DOMAIN UpperToLower : UpperToLower[u] = c
    ELSE c

StrUpper(s) == [i \in 1..Len(s) |-> UpperChar(s[i])]

\* phrase with up to MaxUpper of its characters upper-cased, and all of them
CaseVariants(phrase) ==
    { [i \in 1..Len(phrase) |-> IF i \in U THEN UpperChar(phrase[i]) ELSE phrase[i]] :
          U \in {V \in SUBSET (1..Len(phrase)) : Cardinality(V) <= MaxUpper} }
    \cup { StrUpper(phrase) }

Fragments ==
    { <<"?">>, <<"\n">>, <<" ">>, <<"H","i">>, <<"x">>,
      <<"p","l","e","a","s","e"," ","h","e","l","p">>,
      <<"C","o","d","e">>, <<"a","n","a","l","y","z","e">>, <<"D","e","b","u","g">>,
      <<"f","i","x">> }

\* the concatenations of n fragments
RECURSIVE FragmentStrings(_)
FragmentStrings(n) ==
    IF n = 0 THEN { <<>> }
    ELSE { s \o f : s \in FragmentStrings(n - 1), f \in Fragments }

\* what may follow a request phrase
RequestTails ==
    { <<>>, <<"x">>, <<" ">>, <<" ","x">>, <<"\n","x">>, <<" ","\n">>, <<"\t","x","\n">>,
      <<" ","x","?">>, <<"d"," ","x">> }

\* the request phrases, as written and lower-cased, each with each tail
RequestMessages ==
    { phrase \o tail :
        phrase \in { request_phrases[i] : i \in DOMAIN request_phrases }
                      \cup { StrLower(request_phrases[i]) : i \in DOMAIN request_phrases },
        tail \in RequestTails }

Messages ==
    (UNION { FragmentStrings(n) : n \in 0..MaxFragments })
    \cup RequestMessages
    \cup (UNION { CaseVariants(greeting_phrases[i]) : i \in DOMAIN greeting_phrases })
    \cup (UNION { CaseVariants(farewell_phrases[i]) : i \in DOMAIN farewell_phrases })
    \cup { devin_keywords[i] : i \in DOMAIN devin_keywords }
    \cup { StrUpper(devin_keywords[i]) : i \in DOMAIN devin_keywords }
    \cup { <<"x">> \o devin_keywords[i] \o <<"x">> : i \in DOMAIN devin_keywords }
    \cup { MsgWhatTime, MsgPleaseDebug }

\* get_conversation_state's state for a user without a row
EmptyState(user_id) == [user_id |-> user_id, context |-> <<>>, intent |-> NoneDict]

InitDispatch ==
    /\ chat_states = EmptyDict
    /\ clients = NoneDict
    /\ oa = NoneDict
    /\ max_context_length = DefaultMaxContextLength
    /\ msg \in Messages
    /\ conversation_state = EmptyState("u1")
    /\ turns = <<>>
    /\ exchanges = 0
    /\ call = NoCall
    /\ store = <<>>
    /\ store_up = FALSE
    /\ req = <<>>

NextDispatch ==
    /\ ~call.done
    /\ \E tool \in ToolChoices(msg, "default", ToolOutcomes) :
          Exchange(msg, "u1", "default", tool, [kind |-> "raises"])

SpecDispatch == InitDispatch /\ [][NextDispatch]_vars

-----------------------------------------------------------------------------
(* Properties of the classifier and dispatcher (specification SpecDispatch) *)

EndsWithQuestionMark(s) == Len(s) >= 1 /\ s[Len(s)] = "?"

C5_ToolSelection ==
    call.done =>
        LET m == StrLower(msg)
            Has(k) == StrContains(m, k)
            keywords == { <<"c","o","d","e">>, <<"p","r","o","g","r","a","m","m","i","n","g">>,
                          <<"d","e","v","e","l","o","p">>, <<"b","u","i","l","d">>,
                          <<"c","r","e","a","t","e">>, <<"g","e","n","e","r","a","t","e">>,
                          <<"a","n","a","l","y","z","e">>, <<"d","e","b","u","g">>,
                          <<"f","i","x">>, <<"i","m","p","l","e","m","e","n","t">>,
                          <<"d","e","p","l","o","y">>, <<"a","u","t","o","m","a","t","e">> }
        IN IF \E k \in keywords : Has(k)
           THEN /\ call.intent.requires_devin_api = TRUE
                /\ call.intent.tool_name =
                      IF Has(<<"c","o","d","e">>)
                            \/ Has(<<"p","r","o","g","r","a","m","m","i","n","g">>)
                      THEN "code_assistant"
                      ELSE IF Has(<<"a","n","a","l","y","z","e">>) THEN "code_analyzer"
                      ELSE IF Has(<<"d","e","b","u","g">>) \/ Has(<<"f","i","x">>)
                      THEN "code_debugger"
                      ELSE "general_assistant"
           ELSE /\ call.intent.requires_devin_api = FALSE
                /\ call.intent.tool_name = NoneName

\* C5 witness: a message holding both "Debug" and "analyze" went to the
\* analyzer tool.
C5_Witness ==
    /\ call.done
    /\ msg = <<"D","e","b","u","g","a","n","a","l","y","z","e">>
    /\ call.intent.requires_devin_api
    /\ call.intent.tool_name = "code_analyzer"

\* C6: a message that is a greeting string in any letter case is typed
\* greeting and answered with the fixed greeting, a farewell string is typed
\* farewell and answered with the fixed farewell, and no executor is called.
C6_GreetingFarewell ==
    call.done =>
        LET m == StrLower(msg)
            greetings == { <<"h","i">>, <<"h","e","l","l","o">>, <<"h","e","y">>,
                           <<"g","o","o","d"," ","m","o","r","n","i","n","g">>,
                           <<"g","o","o","d"," ","a","f","t","e","r","n","o","o","n">>,
                           <<"g","o","o","d"," ","e","v","e","n","i","n","g">> }
            farewells == { <<"b","y","e">>, <<"g","o","o","d","b","y","e">>,
                           <<"s","e","e"," ","y","o","u">>,
                           <<"t","a","l","k"," ","t","o"," ","y","o","u"," ","l","a","t","e","r">>,
                           <<"f","a","r","e","w","e","l","l">> }
        IN /\ m \in greetings =>
                /\ call.intent.type = "greeting"
                /\ ~call.failed
                /\ call.result.message = GreetingReply
                /\ call.tool_calls = <<>> /\ call.gas_calls = <<>>
           /\ m \in farewells =>
                /\ call.intent.type = "farewell"
                /\ ~call.failed
                /\ call.result.message = FarewellReply
                /\ call.tool_calls = <<>> /\ call.gas_calls = <<>>

\* C6 witness: "Good Morning" was answered with the fixed greeting.
C6_Witness ==
    /\ call.done
    /\ msg = <<"G","o","o","d"," ","M","o","r","n","i","n","g">>
    /\ call.result.message = GreetingReply

\* the phrases the claim lists, lower-cased
ClaimedRequestPhrases ==
    { <<"p","l","e","a","s","e">>, <<"c","o","u","l","d"," ","y","o","u">>,
      <<"c","a","n"," ","y","o","u">>, <<"w","o","u","l","d"," ","y","o","u">>,
      <<"i"," ","n","e","e","d">>, <<"i"," ","w","a","n","t">> }

\* s begins with phrase
HasPrefix(s, phrase) == Len(s) >= Len(phrase) /\ SubSeq(s, 1, Len(phrase)) = phrase

\* the type of the first matching group in the order question, request,
\* greeting, farewell, general, for a given reading of the request rule
FirstGroup(m, request_rule) ==
    IF MatchesQuestion(m) THEN "question"
    ELSE IF request_rule THEN "request"
    ELSE IF MatchesGreeting(m) THEN "greeting"
    ELSE IF MatchesFarewell(m) THEN "farewell"
    ELSE "general"

\* C22 as stated: the intent type is the label of the first matching group
\* in the order question, request, greeting, farewell, general, the request
\* group matching every message that starts with a request phrase.
C22_AsStated ==
    call.done =>
        LET m == StrLower(msg) IN
        call.intent.type
            = FirstGroup(m, \E phrase \in ClaimedRequestPhrases : HasPrefix(m, phrase))

\* C22 amended: as above, the request group matching a message that starts
\* with a request phrase followed by one whitespace character and then a
\* character other than a newline; a request phrase alone, or followed by
\* anything else, is no request.
C22_RuleOrder ==
    call.done =>
        LET m == StrLower(msg) IN
        call.intent.type
            = FirstGroup(m, \E phrase \in ClaimedRequestPhrases :
                                /\ HasPrefix(m, phrase)
                                /\ Len(m) >= Len(phrase) + 2
                                /\ m[Len(phrase) + 1] \in {" ", "\t", "\n", "\r", "\f"}
                                /\ m[Len(phrase) + 2] # "\n")

\* C22 witness: "I need x" was classified a request, its capital I matched
\* by the lower-cased message.
C22_Witness ==
    /\ call.done
    /\ msg = <<"I"," ","n","e","e","d"," ","x">>
    /\ call.intent.type = "request"

\* the fields of the message's intent that the state carries, under any key
RetainedIntentFields(state) ==
    UNION { DOMAIN state[k] :
              k \in {j \in DOMAIN state : j \notin {"user_id", "context"}} }

\* C24 as stated: after a successful process_message the returned state
\* carries of the intent its type only; tool_name, parameters and raw_message
\* are not in it.
C24_AsStated ==
    (call.done /\ ~call.failed) =>
        RetainedIntentFields(call.result.conversation_state) \subseteq {"type"}

\* C24 amended: after a successful process_message the returned state has
\* the keys user_id, context and intent, and under intent the whole intent of
\* the message as the analyzer returned it: type, requires_devin_api,
\* tool_name, parameters and raw_message, the last being the message itself.
C24_IntentKept ==
    (call.done /\ ~call.failed) =>
        LET state == call.result.conversation_state IN
        /\ DOMAIN state = {"user_id", "context", "intent"}
        /\ DOMAIN state.intent
              = {"type", "requires_devin_api", "tool_name", "parameters", "raw_message"}
        /\ state.intent = call.intent
        /\ state.intent.raw_message = msg
        /\ state.intent.type = DetermineIntentType(StrLower(msg))

\* C24 witness: a message routed to a tool was processed, and the returned
\* state names the tool and holds the message.
C24_Witness ==
    /\ call.done /\ ~call.failed
    /\ msg = MsgPleaseDebug
    /\ call.result.conversation_state.intent.tool_name = "code_debugger"
    /\ call.result.conversation_state.intent.raw_message = MsgPleaseDebug

\* C26: the message process_message returns is a non-empty string, whatever
\* the intent and whatever the tool executor returned.
C26_NonEmptyMessage ==
    call.done => (call.result.message # <<>> /\ call.result.message # NoneStr)

\* the tools the default analyzer names
DefaultToolNames == {"code_assistant", "code_analyzer", "code_debugger", "general_assistant"}

\* C29: under the default analyzer the intent's tool_name is one of
\* code_assistant, code_analyzer, code_debugger, general_assistant when the
\* flag is set and None when it is not, so the script executor branch is not
\* taken: process_message makes no execute_script call.
C29_NoGasByDefault ==
    (call.done /\ call.analyzer = "default" /\ ~call.failed) =>
        /\ IF call.intent.requires_devin_api
           THEN DictGet(call.intent, "tool_name", NoneName) \in DefaultToolNames
           ELSE DictGet(call.intent, "tool_name", NoneName) = NoneName
        /\ call.gas_calls = <<>>
        /\ call.generated \notin {GasErrorReply}
        /\ Len(call.tool_calls) = IF call.intent.requires_devin_api THEN 1 ELSE 0

\* C29 witness: "automate", a keyword none of the three named groups holds,
\* went to the general assistant of the tool executor.
C29_Witness ==
    /\ call.done /\ ~call.failed
    /\ msg = <<"a","u","t","o","m","a","t","e">>
    /\ call.intent.tool_name = "general_assistant"
    /\ Len(call.tool_calls) = 1
    /\ call.gas_calls = <<>>

\* s with the case of its i-th character changed
FlipCase(s, i) ==
    [s EXCEPT ![i] = IF LowerChar(@) # @ THEN LowerChar(@) ELSE UpperChar(@)]

\* spellings of a message that differ from it in case only
Recasings(s) == {StrLower(s), StrUpper(s)} \cup {FlipCase(s, i) : i \in DOMAIN s}

\* contexts other than the empty one the call ran with
OtherContexts == { StartContext(2) }

\* C19: the classification depends on the lower-cased message only: analyze
\* gives any message that equals the classified one after lower-casing, with
\* any context, the same type, the same tool flag and the same tool name.
C19_LowercaseOnly ==
    call.done =>
        \A m2 \in Recasings(msg), c2 \in OtherContexts :
            StrLower(m2) = StrLower(msg) =>
                \E other \in {Analyze(m2, c2)} :
                    /\ other.type = call.intent.type
                    /\ other.requires_devin_api = call.intent.requires_devin_api
                    /\ other.tool_name = call.intent.tool_name

\* C19 witness: a message typed with capitals that names a tool keyword was
\* classified, and its lower-case spelling is another message.
C19_Witness ==
    /\ call.done
    /\ msg # StrLower(msg)
    /\ call.intent.requires_devin_api
    /\ call.intent.tool_name = "code_debugger"
    /\ Analyze(StrLower(msg), <<>>).tool_name = "code_debugger"

-----------------------------------------------------------------------------
(* SupabaseClient: the "conversations" table is the sequence `store` of    *)
(* rows; a backend call (select, update, insert) either completes or       *)
(* raises, which the `ok` argument of the operators below tells.           *)

\* the rows the filter eq("user_id", user_id) selects
RowsOf(rows, user_id) == SelectSeq(rows, LAMBDA row : row.user_id = user_id)

\* dict a with the keys of dict b set to b's values
MergeDict(a, b) ==
    [k \in (DOMAIN a) \cup (DOMAIN b) |-> IF k \in DOMAIN b THEN b[k] ELSE a[k]]

\* an update whose filter matches no row
UpdateRowsNoMatch(rows, user_id, conversation_data) == rows

\* table("conversations").update(conversation_data).eq("user_id", user_id)
UpdateRows(rows, user_id, conversation_data) ==
    [i \in DOMAIN rows |->
        IF rows[i].user_id = user_id THEN MergeDict(rows[i], conversation_data)
        ELSE rows[i]]

\* conversation_data["user_id"] = user_id; table("conversations").insert(conversation_data):
\* the table gives the row its id unless the data carries one
InsertRow(rows, user_id, conversation_data) ==
    Append(rows, MergeDict([id |-> Len(rows) + 1],
                           MergeDict(conversation_data, [user_id |-> user_id])))

\* a get_conversation_state whose select is outside the try block
GetConversationStateNoCatch(rows, up, user_id, ok) ==
    IF ~up THEN [user_id |-> user_id, context |-> <<>>, intent |-> NoneDict]
    ELSE IF ~ok THEN Propagated
    ELSE IF RowsOf(rows, user_id) # <<>> THEN RowsOf(rows, user_id)[1]
    ELSE [user_id |-> user_id, context |-> <<>>, intent |-> NoneDict]

\* which return statement of get_conversation_state is taken
LoadCase(rows, up, user_id, ok) ==
    IF ~up THEN "unconfigured"
    ELSE IF ~ok THEN "query_raised"
    ELSE IF RowsOf(rows, user_id) # <<>> THEN "row" ELSE "no_row"

\* get_conversation_state(user_id): the first selected row, or the empty state
\* when there is no backend, the select raises or no row is selected
GetConversationState(rows, up, user_id, ok) ==
    IF ~up \/ ~ok THEN EmptyState(user_id)
    ELSE IF RowsOf(rows, user_id) # <<>> THEN RowsOf(rows, user_id)[1]
    ELSE EmptyState(user_id)

-----------------------------------------------------------------------------
(* The channel adapters' text-message handler (LineBot._handle_text_message, *)
(* TelegramBot.handle_message): get_conversation_state, process_message,     *)
(* store_conversation_state, reply. Each in-flight request runs these steps  *)
(* in order; the web framework interleaves the steps of different requests.  *)

Requests == {"r1", "r2"}

AdapterUsers == {"u1", "u2"}

AdapterMessages == {MsgHi, MsgWhatTime}

\* the adapter that serves the requests: LineBot with its messaging API
\* client built or not (line_bot_api is None without credentials), or
\* TelegramBot
Channels == {"line", "line_uninitialized", "telegram"}

\* the text _send_response puts in place of an empty message
LineEmptyMessageText ==
    <<"S","o","r","r","y",","," ","I"," ","c","o","u","l","d","n","'","t"," ","p","r","o","c","e","s","s"," ","y","o","u","r"," ","r","e","q","u","e","s","t",".">>

\* the text of _send_error_response
LineErrorText ==
    <<"S","o","r","r","y",","," ","a","n"," ","e","r","r","o","r"," ","o","c","c","u","r","r","e","d",".">>

\* the text of handle_message's except branch (a Japanese apology; its
\* characters play no part in the model)
TelegramErrorText == <<"telegram error apology">>

\* a _send_response whose reply call is outside a try block
SendResponseNoCatch(channel, message, ok) ==
    [sent |-> << [kind |-> "normal",
                  text |-> IF channel = "line" /\ message = <<>>
                           THEN LineEmptyMessageText ELSE message,
                  delivered |-> ok] >>,
     raised |-> ~ok]

\* LineBot._send_response(reply_token, message) and the inner try of
\* TelegramBot.handle_message: one call of the channel API, whose failure is
\* logged.  sent: the calls made; raised: an exception left the block
SendResponse(channel, message, ok) ==
    [sent |-> << [kind |-> "normal",
                  text |-> IF channel = "line" /\ message = <<>>
                           THEN LineEmptyMessageText ELSE message,
                  delivered |-> ok] >>,
     raised |-> FALSE]

\* LineBot._send_error_response(reply_token) and the try in the except branch
\* of TelegramBot.handle_message
SendErrorResponse(channel, ok) ==
    [sent |-> << [kind |-> "error",
                  text |-> IF channel = "line" THEN LineErrorText ELSE TelegramErrorText,
                  delivered |-> ok] >>,
     raised |-> FALSE]

\* a request that has not started
NewRequest(user_id, message) ==
    [pc |-> "start", user_id |-> user_id, message |-> message,
     conversation_state |-> NoneDict,  \* what get_conversation_state returned
     response |-> NoneDict,            \* what process_message returned
     row_exists |-> FALSE,             \* response.data of the select in store
     store_ok |-> FALSE,               \* what store_conversation_state returned
     reply |-> NoneStr,                \* the text handed to the channel
     channel |-> "line",               \* the adapter that serves the request
     steps |-> <<>>,                   \* the calls the handler has made, in order
     replies |-> <<>>,                 \* the calls of the channel API, in order
     raised |-> FALSE,                 \* an exception left the handler
     loaded_case |-> "none",           \* the return statement get_conversation_state took
     loaded_after |-> 0,               \* writes completed when the state was loaded
     write_seq |-> 0,                  \* position of this request's write among the writes
     wrote_rows |-> {}]                \* the rows this request's write touched

\* the number of store writes completed so far
WritesDone == Cardinality({q \in Requests : req[q].write_seq > 0})

\* a stored row of a returning user
StoredRow(user_id) ==
    [id |-> 1, user_id |-> user_id, context |-> StartContext(2), intent |-> NoneDict]

InitAdapter ==
    /\ chat_states = EmptyDict
    /\ clients = NoneDict
    /\ oa = NoneDict
    /\ max_context_length = DefaultMaxContextLength
    /\ conversation_state = EmptyState("u1")
    /\ turns = <<>>
    /\ exchanges = 0
    /\ call = NoCall
    /\ msg = <<>>
    /\ store \in { <<>>, <<StoredRow("u1")>> }
    /\ store_up \in BOOLEAN
    /\ \E u2 \in AdapterUsers, m1 \in AdapterMessages, m2 \in AdapterMessages,
          channel \in Channels :
          req = [r \in Requests |->
                    [(IF r = "r1" THEN NewRequest("u1", m1) ELSE NewRequest(u2, m2))
                        EXCEPT !.channel = channel]]

\* if not self.line_bot_api: return
SkipUninitialized(r) ==
    /\ req[r].pc = "start"
    /\ req[r].channel = "line_uninitialized"
    /\ req' = [req EXCEPT ![r].pc = "done"]
    /\ UNCHANGED <<chat_states, clients, oa, max_context_length, conversation_state, turns, exchanges, call, msg,
                   store, store_up>>

\* a statement of the try block raises before the store call: the update
\* has no effective_user, or the bot was built without a database client
\* (before the load) or without a message handler (after it)
HandlerRaises(r) ==
    /\ req[r].pc \in {"start", "loaded"}
    /\ req[r].channel # "line_uninitialized"
    /\ req' = [req EXCEPT ![r].pc = "failed"]
    /\ UNCHANGED <<chat_states, clients, oa, max_context_length, conversation_state, turns, exchanges, call, msg,
                   store, store_up>>

\* conversation_state = self.database_client.get_conversation_state(user_id)
Load(r, ok) ==
    /\ req[r].pc = "start"
    /\ req[r].channel # "line_uninitialized"
    /\ req' = [req EXCEPT ![r].pc = "loaded",
                          ![r].steps = Append(@, "load"),
                          ![r].conversation_state =
                              GetConversationState(store, store_up, req[r].user_id, ok),
                          ![r].loaded_case = LoadCase(store, store_up, req[r].user_id, ok),
                          ![r].loaded_after = WritesDone]
    /\ UNCHANGED <<chat_states, clients, oa, max_context_length, conversation_state, turns, exchanges, call, msg,
                   store, store_up>>

\* response = process_message(message_text, user_id, conversation_state)
Process(r) ==
    /\ req[r].pc = "loaded"
    /\ \E out \in {ProcessMessage(req[r].message, req[r].user_id, req[r].conversation_state,
                                  "default", [kind |-> "raises"], [kind |-> "raises"])} :
          req' = [req EXCEPT ![r].pc = "processed", ![r].response = out.result,
                             ![r].steps = Append(@, "process")]
    /\ UNCHANGED <<chat_states, clients, oa, max_context_length, conversation_state, turns, exchanges, call, msg,
                   store, store_up>>

\* store_conversation_state up to the select: without a backend, or when the
\* select raises, it returns False
StoreSelect(r, ok) ==
    /\ req[r].pc = "processed"
    /\ IF ~store_up \/ ~ok
       THEN req' = [req EXCEPT ![r].pc = "stored", ![r].store_ok = FALSE,
                               ![r].steps = Append(@, "store")]
       ELSE req' = [req EXCEPT ![r].pc = "selected",
                               ![r].steps = Append(@, "store"),
                               ![r].row_exists = (RowsOf(store, req[r].user_id) # <<>>)]
    /\ UNCHANGED <<chat_states, clients, oa, max_context_length, conversation_state, turns, exchanges, call, msg,
                   store, store_up>>

\* store_conversation_state from the select on: update when the select found a
\* row, else insert; it returns True unless the call raises
StoreWrite(r, ok) ==
    /\ req[r].pc = "selected"
    /\ IF ~ok
       THEN /\ req' = [req EXCEPT ![r].pc = "stored", ![r].store_ok = FALSE]
            /\ UNCHANGED store
       ELSE \E data \in {req[r].response.conversation_state} :
            \E rows \in {IF req[r].row_exists
                         THEN UpdateRows(store, req[r].user_id, data)
                         ELSE InsertRow(store, req[r].user_id, data)} :
               /\ store' = rows
               /\ req' = [req EXCEPT ![r].pc = "stored", ![r].store_ok = TRUE,
                                     ![r].write_seq = WritesDone + 1,
                                     ![r].wrote_rows =
                                         IF req[r].row_exists
                                         THEN {i \in DOMAIN store :
                                                 store[i].user_id = req[r].user_id}
                                         ELSE {Len(rows)}]
    /\ UNCHANGED <<chat_states, clients, oa, max_context_length, conversation_state, turns, exchanges, call, msg,
                   store_up>>

\* a handler that replies as soon as process_message has returned
SendReplyBeforeStore(r, ok) ==
    /\ req[r].pc = "processed"
    /\ ~(\E i \in DOMAIN req[r].steps : req[r].steps[i] = "reply")
    /\ \E out \in {SendResponse(req[r].channel, req[r].response.message, ok)} :
          req' = [req EXCEPT ![r].reply = IF ok THEN req[r].response.message ELSE NoneStr,
                             ![r].steps = Append(@, "reply"),
                             ![r].replies = @ \o out.sent]
    /\ UNCHANGED <<chat_states, clients, oa, max_context_length, conversation_state, turns, exchanges, call, msg,
                   store, store_up>>

\* the reply with response.get("message", ""); a failure of the channel call
\* is caught and logged. An exception leaving the reply block of LineBot
\* would reach the except branch of _handle_text_message, one leaving that of
\* TelegramBot the except branch of handle_message.
SendReply(r, ok) ==
    /\ req[r].pc = "stored"
    /\ \E out \in {SendResponse(req[r].channel, req[r].response.message, ok)} :
          req' = [req EXCEPT ![r].pc = IF out.raised THEN "failed" ELSE "done",
                             ![r].reply = IF ok THEN req[r].response.message ELSE NoneStr,
                             ![r].steps = Append(@, "reply"),
                             ![r].replies = @ \o out.sent]
    /\ UNCHANGED <<chat_states, clients, oa, max_context_length, conversation_state, turns, exchanges, call, msg,
                   store, store_up>>

\* the except branch of the handler: the error reply, whose failure is logged
SendErrorReply(r, ok) ==
    /\ req[r].pc = "failed"
    /\ \E out \in {SendErrorResponse(req[r].channel, ok)} :
          req' = [req EXCEPT ![r].pc = "done",
                             ![r].raised = out.raised,
                             ![r].steps = Append(@, "error_reply"),
                             ![r].replies = @ \o out.sent]
    /\ UNCHANGED <<chat_states, clients, oa, max_context_length, conversation_state, turns, exchanges, call, msg,
                   store, store_up>>

\* Neither adapter takes a lock or checks a version between its
\* get_conversation_state and its store_conversation_state, and the table is
\* an external service: requests served by different threads or worker
\* processes interleave at every backend call. (Inside one event loop,
\* TelegramBot.handle_message reaches its first await only at the reply, so one
\* single-worker process alone does not interleave the store steps.)
NextAdapter ==
    \E r \in Requests :
        \/ \E ok \in BOOLEAN : Load(r, ok)
        \/ Process(r)
        \/ \E ok \in BOOLEAN : StoreSelect(r, ok)
        \/ \E ok \in BOOLEAN : StoreWrite(r, ok)
        \/ \E ok \in BOOLEAN : SendReply(r, ok)
        \/ \E ok \in BOOLEAN : SendErrorReply(r, ok)
        \/ SkipUninitialized(r)
        \/ HandlerRaises(r)

SpecAdapter == InitAdapter /\ [][NextAdapter]_vars

-----------------------------------------------------------------------------
(* Properties of the adapters (specification SpecAdapter) *)

\* the handler of request r has made the call named step
Did(r, step) == \E i \in DOMAIN req[r].steps : req[r].steps[i] = step

\* both requests are for one user, both loaded the state before any write
\* completed, both stores returned True, and b's write came after a's
RacedThenWrote(a, b) ==
    /\ a # b
    /\ req[a].user_id = req[b].user_id
    /\ req[a].pc = "done" /\ req[b].pc = "done"
    /\ req[a].loaded_after = 0 /\ req[b].loaded_after = 0
    /\ req[a].store_ok /\ req[b].store_ok
    /\ req[a].write_seq < req[b].write_seq

C11_DefaultState ==
    \A r \in Requests :
        /\ Did(r, "load") => req[r].conversation_state # Propagated
        /\ (Did(r, "load") /\ req[r].loaded_case # "row") =>
              /\ req[r].conversation_state
                    = [user_id |-> req[r].user_id, context |-> <<>>, intent |-> NoneDict]
              /\ Did(r, "process") =>
                    /\ req[r].response.message # ProcessingErrorMessage
                    /\ req[r].response.conversation_state.context
                          = << UserTurn(req[r].message),
                               AssistantTurn(req[r].response.message) >>

\* C11 witness: each of the three cases was met by a request that then went
\* through the whole pipeline.
C11_Witness ==
    \E a \in Requests, b \in Requests :
        /\ req[a].pc = "done" /\ req[b].pc = "done"
        /\ req[a].loaded_case = "query_raised"
        /\ req[b].loaded_case = "no_row"
        /\ Did(a, "process") /\ Did(b, "process")
        /\ Len(req[a].response.conversation_state.context) = 2

Times(r, step) == Cardinality({i \in DOMAIN req[r].steps : req[r].steps[i] = step})

\* what holds of the replies of request r at every moment
RepliesOf(r) ==
    /\ ~req[r].raised
    /\ Len(req[r].replies) <= 1
    /\ Times(r, "store") <= 1
    /\ req[r].pc = "done" =>
          Len(req[r].replies) = IF req[r].channel = "line_uninitialized" THEN 0 ELSE 1
    /\ \A i \in DOMAIN req[r].replies :
          req[r].replies[i].kind = IF Did(r, "process") THEN "normal" ELSE "error"

\* a step in which request r calls the channel API
RepliesIn(r) == Len(req'[r].replies) > Len(req[r].replies)

HandlerSteps == <<"load", "process", "store", "reply">>

\* C23: the calls of one handler run are a prefix of load, process_message,
\* store, reply (or end in the error reply when a statement before the store
\* raised), so each is made at most once and the store call precedes the
\* reply; a handler that made the store call and returned has also replied,
\* whether the store call returned True or False; and the store call writes
\* the state process_message returned, in rows of the request's own user.
C23_StepOrder ==
    /\ [](\A r \in Requests :
             /\ \/ \E n \in 0..4 : req[r].steps = SubSeq(HandlerSteps, 1, n)
                \/ req[r].steps \in { <<"error_reply">>, <<"load", "error_reply">> }
             /\ (req[r].pc = "done" /\ Did(r, "store")) => req[r].steps = HandlerSteps)
    /\ [][\A r \in Requests :
             req'[r].write_seq > req[r].write_seq =>
                /\ req[r].steps = <<"load", "process", "store">>
                /\ req'[r].wrote_rows # {}
                /\ \A i \in req'[r].wrote_rows :
                      /\ store'[i].user_id = req[r].user_id
                      /\ store'[i].context = req[r].response.conversation_state.context
                      /\ store'[i].intent = req[r].response.conversation_state.intent]_vars

\* C23 witness: a handler whose store call returned False went on to reply,
\* and another one stored its state and replied.
C23_Witness ==
    \E a \in Requests, b \in Requests :
        /\ req[a].pc = "done" /\ req[b].pc = "done"
        /\ req[a].steps = HandlerSteps /\ req[b].steps = HandlerSteps
        /\ ~req[a].store_ok /\ req[b].store_ok
        /\ req[a].replies[1].delivered
        /\ req[b].write_seq = 1

\* C25: whatever the interleaving of the store calls, the table holds at
\* most one row for each user_id.
C25_AtMostOneRow ==
    \A user_id \in AdapterUsers : Len(RowsOf(store, user_id)) <= 1

-----------------------------------------------------------------------------
(* SupabaseClient.store_conversation_state called by one caller at a time *)

MaxStores == 3

\* a store_conversation_state that inserts without looking for a row first
StoreConversationStateInsertOnly(rows, up, user_id, conversation_data, ok_select, ok_write) ==
    IF ~up THEN [ret |-> FALSE, rows |-> rows, backend_calls |-> 0]
    ELSE IF ~ok_select THEN [ret |-> FALSE, rows |-> rows, backend_calls |-> 1]
    ELSE IF ~ok_write THEN [ret |-> FALSE, rows |-> rows, backend_calls |-> 2]
    ELSE [ret |-> TRUE, rows |-> InsertRow(rows, user_id, conversation_data),
          backend_calls |-> 2]

\* store_conversation_state(user_id, conversation_data) run to its return:
\* ok_select and ok_write tell whether the select and the update/insert
\* complete or raise.
\*   ret:           the returned bool
\*   rows:          the table after the call
\*   backend_calls: the backend calls made
StoreConversationState(rows, up, user_id, conversation_data, ok_select, ok_write) ==
    IF ~up THEN [ret |-> FALSE, rows |-> rows, backend_calls |-> 0]
    ELSE IF ~ok_select THEN [ret |-> FALSE, rows |-> rows, backend_calls |-> 1]
    ELSE IF ~ok_write THEN [ret |-> FALSE, rows |-> rows, backend_calls |-> 2]
    ELSE [ret |-> TRUE,
          rows |-> IF RowsOf(rows, user_id) # <<>>
                   THEN UpdateRows(rows, user_id, conversation_data)
                   ELSE InsertRow(rows, user_id, conversation_data),
          backend_calls |-> 2]

\* the states the adapters hand to the store for a user: what process_message
\* returned for that user
StoreStates(user_id) ==
    { EmptyState(user_id),
      [user_id |-> user_id, context |-> StartContext(2), intent |-> NoneDict],
      [user_id |-> user_id,
       context |-> << UserTurn(MsgHi), AssistantTurn(GreetingReply) >>,
       intent |-> Analyze(MsgHi, <<>>)] }

\* the tables a sequence of completed store calls leaves: at most one row a user
StoreTables ==
    { <<>>,
      << StoredRow("u1") >>,
      << StoredRow("u1"),
         [id |-> 2, user_id |-> "u2", context |-> <<>>, intent |-> NoneDict] >> }

NoStoreCall ==
    [done |-> FALSE, user_id |-> "None", conversation_data |-> NoneDict, ret |-> FALSE,
     ok_select |-> FALSE, ok_write |-> FALSE, backend_calls |-> 0, rows_before |-> <<>>]

InitStore ==
    /\ chat_states = EmptyDict
    /\ clients = NoneDict
    /\ oa = NoneDict
    /\ max_context_length = DefaultMaxContextLength
    /\ conversation_state = EmptyState("u1")
    /\ turns = <<>>
    /\ exchanges = 0
    /\ call = [last |-> NoStoreCall, previous |-> NoStoreCall]
    /\ msg = <<>>
    /\ store \in StoreTables
    /\ store_up \in BOOLEAN
    /\ req = <<>>

\* one call of store_conversation_state; `exchanges` counts the calls
StoreCall(user_id, conversation_data, ok_select, ok_write) ==
    /\ exchanges < MaxStores
    /\ \E r \in {StoreConversationState(store, store_up, user_id, conversation_data,
                                        ok_select, ok_write)} :
          /\ store' = r.rows
          /\ call' = [last |-> [done |-> TRUE, user_id |-> user_id,
                                conversation_data |-> conversation_data, ret |-> r.ret,
                                ok_select |-> ok_select, ok_write |-> ok_write,
                                backend_calls |-> r.backend_calls, rows_before |-> store],
                      previous |-> call.last]
    /\ exchanges' = exchanges + 1
    /\ UNCHANGED <<chat_states, clients, oa, max_context_length, conversation_state, turns, msg, store_up, req>>

NextStore ==
    /\ exchanges < MaxStores
    /\ \E user_id \in AdapterUsers :
       \E conversation_data \in StoreStates(user_id), ok_select \in BOOLEAN, ok_write \in BOOLEAN :
          StoreCall(user_id, conversation_data, ok_select, ok_write)

SpecStore == InitStore /\ [][NextStore]_vars

-----------------------------------------------------------------------------
(* Properties of the store (specification SpecStore) *)

\* the last two calls stored the same state for the same user and both
\* returned True
StoredTwice ==
    /\ call.last.done /\ call.previous.done
    /\ call.last.user_id = call.previous.user_id
    /\ call.last.conversation_data = call.previous.conversation_data
    /\ call.last.ret = TRUE /\ call.previous.ret = TRUE

\* C12: store_conversation_state raises nothing; it returns False when there
\* is no backend or a backend call raises, True otherwise; and storing the
\* same state twice in a row for one user leaves the table as it was after
\* the first call, with one row for that user.
C12_IdempotentUpsert ==
    /\ call.last.done =>
          /\ call.last.ret \in BOOLEAN
          /\ call.last.ret = (store_up /\ call.last.ok_select /\ call.last.ok_write)
    /\ StoredTwice =>
          /\ store = call.last.rows_before
          /\ Len(RowsOf(store, call.last.user_id)) = 1

\* C12 witness: a new user's state was stored twice in a row, the first call
\* inserting and the second updating.
C12_Witness ==
    /\ StoredTwice
    /\ RowsOf(call.previous.rows_before, call.last.user_id) = <<>>
    /\ call.last.conversation_data.context # <<>>

-----------------------------------------------------------------------------
(* The HTTP clients: DevinAPI and GASClient *)

\* str(n) for a natural number n
DigitChars == <<"0", "1", "2", "3", "4", "5", "6", "7", "8", "9">>

RECURSIVE IntToStr(_)
IntToStr(n) ==
    IF n < 10 THEN <<DigitChars[n + 1]>>
    ELSE IntToStr(n \div 10) \o <<DigitChars[(n % 10) + 1]>>

\* Python truth of an Optional[str]: None and "" are false
StrTruthy(s) == s # NoneStr /\ s # <<>>

\* the values an api_key or api_url field can hold
KeyValues == { NoneStr, <<>>, <<"k">> }

\* JSON values of the "success" field of a response body
JsonTrue == [json |-> "true"]
JsonFalse == [json |-> "false"]
JsonNull == [json |-> "null"]
JsonOne == [json |-> "number", value |-> 1]
JsonZero == [json |-> "number", value |-> 0]
JsonEmptyString == [json |-> "string", value |-> <<>>]

\* Python truth of a decoded JSON value
Truthy(v) ==
    CASE v.json = "true" -> TRUE
      [] v.json = "false" -> FALSE
      [] v.json = "null" -> FALSE
      [] v.json = "number" -> v.value # 0
      [] v.json = "string" -> v.value # <<>>

\* the text of the exception a failing call raises
ExceptionMessage == <<"b","o","o","m">>

\* response.text, not modelled character by character
BodyText == <<"[body]">>

\* what requests.post does: it raises, or returns a response with a status
\* code, and a body that response.json() cannot parse ("invalid"), parses to
\* a JSON array ("array") or parses to an object ("object", data)
HttpResponses(bodies) ==
    { [kind |-> "raises"] } \cup
    { [kind |-> "response", status_code |-> s, body |-> b] : s \in {200, 500}, b \in bodies }

\* "I couldn't access the required tools. Please check the API configuration."
DevinNoKeyMessage ==
    <<"I"," ","c","o","u","l","d","n","'","t"," ","a","c","c","e","s","s"," ","t","h",
      "e"," ","r","e","q","u","i","r","e","d"," ","t","o","o","l","s","."," ","P","l",
      "e","a","s","e"," ","c","h","e","c","k"," ","t","h","e"," ","A","P","I"," ","c",
      "o","n","f","i","g","u","r","a","t","i","o","n",".">>

\* "An error occurred while trying to use the tool."
DevinErrorMessage ==
    <<"A","n"," ","e","r","r","o","r"," ","o","c","c","u","r","r","e","d"," ","w","h",
      "i","l","e"," ","t","r","y","i","n","g"," ","t","o"," ","u","s","e"," ","t","h",
      "e"," ","t","o","o","l",".">>

\* "Error executing tool: "
DevinStatusPrefix ==
    <<"E","r","r","o","r"," ","e","x","e","c","u","t","i","n","g"," ","t","o","o","l",
      ":"," ">>

\* DevinAPI._create_error_response(message)
DevinCreateErrorResponse(message) == [content |-> message]

\* DevinAPI._prepare_payload(tool_name, parameters, context)
DevinPreparePayload(tool_name, parameters, context) ==
    [tool |-> tool_name, parameters |-> parameters, context |-> context]

\* a _process_response that returns the body whatever the status code
DevinProcessResponseAnyStatus(response) ==
    IF response.body.kind = "invalid"
    THEN [raises |-> TRUE, ret |-> NoneDict]
    ELSE [raises |-> FALSE,
          ret |-> IF response.body.kind = "array" THEN <<>> ELSE response.body.data]

\* DevinAPI._process_response(response): raises when response.json() does
DevinProcessResponse(response) ==
    IF response.status_code = 200
    THEN IF response.body.kind = "invalid"
         THEN [raises |-> TRUE, ret |-> NoneDict]
         ELSE [raises |-> FALSE,
               ret |-> IF response.body.kind = "array" THEN <<>> ELSE response.body.data]
    ELSE [raises |-> FALSE,
          ret |-> DevinCreateErrorResponse(
                     DevinStatusPrefix \o IntToStr(response.status_code))]

\* DevinAPI.execute_tool(tool_name, parameters, context), requests.post
\* behaving as `http`.
\*   ret:      the returned dict
\*   requests: the payloads of the HTTP requests sent
DevinExecuteTool(api_key, tool_name, parameters, context, http) ==
    IF ~StrTruthy(api_key)
    THEN [ret |-> DevinCreateErrorResponse(DevinNoKeyMessage), requests |-> <<>>]
    ELSE LET payload == DevinPreparePayload(tool_name, parameters, context)
         IN IF http.kind = "raises"
            THEN [ret |-> DevinCreateErrorResponse(DevinErrorMessage),
                  requests |-> <<payload>>]
            ELSE LET p == DevinProcessResponse(http)
                 IN [ret |-> IF p.raises
                             THEN DevinCreateErrorResponse(DevinErrorMessage)
                             ELSE p.ret,
                     requests |-> <<payload>>]

\* the bodies a Devin endpoint answers with
DevinBodies ==
    { [kind |-> "invalid"],
      [kind |-> "array"],
      [kind |-> "object", data |-> [content |-> <<"o","k">>]],
      [kind |-> "object", data |-> [status |-> <<"d","o","n","e">>]] }

\* the fixed Japanese text of GASClient for a missing key or URL
\* (gas_client.py line 51); its characters are not modelled one by one
GasConfigMessage == <<"[GAS API settings incomplete, check key and URL]">>

\* the fixed Japanese text that precedes the exception of a failed request (line 69)
GasRequestErrorPrefix == <<"[error while calling the GAS API: ]">>

\* the fixed Japanese text that precedes the exception of a failed
\* response processing (line 95)
GasResponseErrorPrefix == <<"[error while processing the response: ]">>

\* the default of data.get("result", ...) (line 87)
GasClientNoResult == <<"[there is no result]">>

\* "HTTP "
HttpPrefix == <<"H","T","T","P"," ">>

\* GASClient._create_error_response(message)
GasCreateErrorResponse(message) == [success |-> FALSE, error |-> message]

\* a _process_response that does not look at the status code
GasProcessResponseAnyStatus(response) ==
    IF response.body.kind # "object"
    THEN GasCreateErrorResponse(GasResponseErrorPrefix \o ExceptionMessage)
    ELSE LET data == response.body.data IN
         IF Truthy(DictGet(data, "success", JsonNull))
         THEN [success |-> TRUE, result |-> DictGet(data, "result", GasClientNoResult)]
         ELSE GasCreateErrorResponse(
                 DictGet(data, "error",
                         HttpPrefix \o IntToStr(response.status_code) \o <<":", " ">>
                            \o BodyText))

\* GASClient._process_response(response): response.json() raising, and
\* data.get on a body that is no object, end in the except branch
GasProcessResponse(response) ==
    IF response.body.kind # "object"
    THEN GasCreateErrorResponse(GasResponseErrorPrefix \o ExceptionMessage)
    ELSE LET data == response.body.data IN
         IF response.status_code = 200 /\ Truthy(DictGet(data, "success", JsonNull))
         THEN [success |-> TRUE, result |-> DictGet(data, "result", GasClientNoResult)]
         ELSE GasCreateErrorResponse(
                 DictGet(data, "error",
                         HttpPrefix \o IntToStr(response.status_code) \o <<":", " ">>
                            \o BodyText))

\* GASClient.execute_script(script, title), requests.post behaving as `http`
GasExecuteScript(api_key, api_url, script, title, http) ==
    IF ~StrTruthy(api_key) \/ ~StrTruthy(api_url)
    THEN [ret |-> GasCreateErrorResponse(GasConfigMessage), requests |-> <<>>]
    ELSE LET payload == [script |-> script, title |-> title, apiKey |-> api_key]
         IN IF http.kind = "raises"
            THEN [ret |-> GasCreateErrorResponse(GasRequestErrorPrefix \o ExceptionMessage),
                  requests |-> <<payload>>]
            ELSE [ret |-> GasProcessResponse(http), requests |-> <<payload>>]

\* the bodies a GAS endpoint answers with
GasBodies ==
    { [kind |-> "invalid"],
      [kind |-> "array"],
      [kind |-> "object", data |-> EmptyDict] } \cup
    { [kind |-> "object", data |-> [success |-> v, result |-> <<"4","2">>]] :
         v \in {JsonTrue, JsonOne} } \cup
    { [kind |-> "object", data |-> [success |-> JsonTrue]] } \cup
    { [kind |-> "object", data |-> [success |-> v, error |-> <<"e","r","r">>]] :
         v \in {JsonFalse, JsonNull, JsonZero, JsonEmptyString, JsonTrue} } \cup
    { [kind |-> "object", data |-> [success |-> JsonFalse]] }

-----------------------------------------------------------------------------
(* The webhook receivers: LineBot.handle_webhook, TelegramBot.handle_webhook *)

\* a handle_webhook that catches InvalidSignatureError only
LineHandleWebhookSignatureOnly(handler, signature_valid, handler_raises) ==
    IF ~handler THEN [raised |-> FALSE, ret |-> FALSE, handle_calls |-> 0]
    ELSE IF ~signature_valid THEN [raised |-> FALSE, ret |-> FALSE, handle_calls |-> 1]
    ELSE IF handler_raises THEN [raised |-> TRUE, ret |-> FALSE, handle_calls |-> 1]
    ELSE [raised |-> FALSE, ret |-> TRUE, handle_calls |-> 1]

\* LineBot.handle_webhook(signature, body): self.handler is set or None;
\* handler.handle raises InvalidSignatureError for a signature that does not
\* match the body, and otherwise whatever an event handler raises.
\*   raised:       an exception left handle_webhook
\*   ret:          the returned bool
\*   handle_calls: the calls of handler.handle made
LineHandleWebhook(handler, signature_valid, handler_raises) ==
    IF ~handler THEN [raised |-> FALSE, ret |-> FALSE, handle_calls |-> 0]
    ELSE IF ~signature_valid THEN [raised |-> FALSE, ret |-> FALSE, handle_calls |-> 1]
    ELSE IF handler_raises THEN [raised |-> FALSE, ret |-> FALSE, handle_calls |-> 1]
    ELSE [raised |-> FALSE, ret |-> TRUE, handle_calls |-> 1]

\* what a webhook body is to TelegramBot.handle_webhook: json.loads or
\* Update.de_json raises on it ("undecodable"), Update.de_json returns None
\* ("empty"), or it is an update that process_update completes or raises on
TelegramBodies ==
    { [kind |-> "undecodable"], [kind |-> "empty"],
      [kind |-> "update", process |-> "completes"],
      [kind |-> "update", process |-> "raises"] }

\* a handle_webhook without the test of the decoded update
TelegramHandleWebhookNoEmptyTest(application, body) ==
    IF ~application THEN [raised |-> FALSE, ret |-> FALSE, process_update_calls |-> 0]
    ELSE IF body.kind = "undecodable"
    THEN [raised |-> FALSE, ret |-> FALSE, process_update_calls |-> 0]
    ELSE IF body.kind = "update" /\ body.process = "raises"
    THEN [raised |-> FALSE, ret |-> FALSE, process_update_calls |-> 1]
    ELSE [raised |-> FALSE, ret |-> TRUE, process_update_calls |-> 1]

\* TelegramBot.handle_webhook(update_json): self.application is set or None
\*   raised:               an exception left handle_webhook
\*   ret:                  the returned bool
\*   process_update_calls: the calls of application.process_update made
TelegramHandleWebhook(application, body) ==
    IF ~application THEN [raised |-> FALSE, ret |-> FALSE, process_update_calls |-> 0]
    ELSE IF body.kind = "undecodable"
    THEN [raised |-> FALSE, ret |-> FALSE, process_update_calls |-> 0]
    ELSE IF body.kind = "empty"
    THEN [raised |-> FALSE, ret |-> FALSE, process_update_calls |-> 0]
    ELSE IF body.process = "raises"
    THEN [raised |-> FALSE, ret |-> FALSE, process_update_calls |-> 1]
    ELSE [raised |-> FALSE, ret |-> TRUE, process_update_calls |-> 1]

-----------------------------------------------------------------------------
(* main.py: the POST /webhook/{token} endpoint. A response is the status    *)
(* code with the detail of the HTTPException that left the function, or     *)
(* with the status of the returned JSON content.                            *)

\* the token of a request path
WebhookTokens == { <<"t","o","k","e","n">>, <<"o","t","h","e","r">> }

\* raise HTTPException(status_code, detail): HTTPException derives from
\* Exception
HTTPException(status_code, detail) ==
    [class |-> "HTTPException", bases |-> {"HTTPException", "Exception"},
     status_code |-> status_code, detail |-> detail]

\* webhook(token, request): bot_token is os.getenv("TELEGRAM_BOT_TOKEN") and
\* handled what telegram_bot.handle_webhook(body) does when called
\*   status_code, text:     the response
\*   handle_webhook_calls:  the calls of telegram_bot.handle_webhook made
Webhook(token, bot_token, handled) ==
    IF token # bot_token
    THEN [status_code |-> 401, text |-> "Unauthorized", handle_webhook_calls |-> 0]
    ELSE LET tried ==  \* the try block: what it returns or raises
                 IF handled.raised
                 THEN [raises |-> TRUE,
                       exception |-> [class |-> "RuntimeError",
                                      bases |-> {"RuntimeError", "Exception"}]]
                 ELSE IF handled.ret
                 THEN [raises |-> FALSE, status_code |-> 200, text |-> "ok"]
                 ELSE [raises |-> TRUE, exception |-> HTTPException(400, "Invalid request")]
         IN IF tried.raises
            THEN IF "Exception" \in tried.exception.bases  \* except Exception as e
                 THEN [status_code |-> 500, text |-> "Internal server error",
                       handle_webhook_calls |-> 1]
                 ELSE [status_code |-> tried.exception.status_code,
                       text |-> tried.exception.detail, handle_webhook_calls |-> 1]
            ELSE [status_code |-> tried.status_code, text |-> tried.text,
                  handle_webhook_calls |-> 1]

-----------------------------------------------------------------------------
(* Calls of the clients and the receivers, each run to its return *)

\* the configurations the constructors leave
\* (the Telegram application is built only with a token: telegram_bot.py 37-47)
ClientConfigurations ==
    { c \in [devin_api_key : KeyValues, gas_api_key : KeyValues, gas_api_url : KeyValues,
             line_handler : BOOLEAN, telegram_application : BOOLEAN,
             telegram_bot_token : {NoneStr, <<"t","o","k","e","n">>}] :
        c.telegram_application => c.telegram_bot_token # NoneStr }

InitClients ==
    /\ chat_states = EmptyDict
    /\ clients \in ClientConfigurations
    /\ oa = NoneDict
    /\ max_context_length = DefaultMaxContextLength
    /\ conversation_state = EmptyState("u1")
    /\ turns = <<>>
    /\ exchanges = 0
    /\ call = [fn |-> "none"]
    /\ msg = <<>>
    /\ store = <<>>
    /\ store_up = FALSE
    /\ req = <<>>

\* devin_api.execute_tool(tool_name, parameters, context) as
\* _handle_tool_intent calls it for the first message of a conversation
ExecuteTool(tool_name, message) ==
    /\ \E http \in HttpResponses(DevinBodies) :
       \E r \in {DevinExecuteTool(clients.devin_api_key, tool_name,
                                   ExtractParameters(message), <<UserTurn(message)>>, http)} :
          call' = [fn |-> "execute_tool", http |-> http, ret |-> r.ret,
                   requests |-> r.requests]
    /\ UNCHANGED <<chat_states, clients, oa, max_context_length, conversation_state, turns, exchanges,
                   msg, store, store_up, req>>

\* gas_client.execute_script(script, title)
ExecuteScript(script, title) ==
    /\ \E http \in HttpResponses(GasBodies) :
       \E r \in {GasExecuteScript(clients.gas_api_key, clients.gas_api_url, script, title,
                                  http)} :
          call' = [fn |-> "execute_script", http |-> http, ret |-> r.ret,
                   requests |-> r.requests]
    /\ UNCHANGED <<chat_states, clients, oa, max_context_length, conversation_state, turns, exchanges,
                   msg, store, store_up, req>>

\* line_bot.handle_webhook(signature, body)
LineWebhook(signature_valid, handler_raises) ==
    /\ \E r \in {LineHandleWebhook(clients.line_handler, signature_valid, handler_raises)} :
          call' = [fn |-> "line_webhook", signature_valid |-> signature_valid,
                   handler_raises |-> handler_raises, raised |-> r.raised, ret |-> r.ret,
                   handle_calls |-> r.handle_calls]
    /\ UNCHANGED <<chat_states, clients, oa, max_context_length, conversation_state, turns, exchanges,
                   msg, store, store_up, req>>

\* telegram_bot.handle_webhook(update_json)
TelegramWebhook ==
    /\ \E body \in TelegramBodies :
       \E r \in {TelegramHandleWebhook(clients.telegram_application, body)} :
          call' = [fn |-> "telegram_webhook", body |-> body, raised |-> r.raised,
                   ret |-> r.ret, process_update_calls |-> r.process_update_calls]
    /\ UNCHANGED <<chat_states, clients, oa, max_context_length, conversation_state, turns, exchanges,
                   msg, store, store_up, req>>

\* a POST /webhook/{token} request served by main.webhook; bot_raises: the
\* telegram_bot in place is one whose handle_webhook raises
WebhookRequest(token, bot_raises) ==
    /\ \E body \in TelegramBodies :
       \E handled \in {IF bot_raises
                        THEN [raised |-> TRUE, ret |-> FALSE, process_update_calls |-> 0]
                        ELSE TelegramHandleWebhook(clients.telegram_application, body)} :
       \E r \in {Webhook(token, clients.telegram_bot_token, handled)} :
          call' = [fn |-> "webhook", token |-> token, body |-> body, handled |-> handled,
                   status_code |-> r.status_code, text |-> r.text,
                   handle_webhook_calls |-> r.handle_webhook_calls]
    /\ UNCHANGED <<chat_states, clients, oa, max_context_length, conversation_state, turns, exchanges,
                   msg, store, store_up, req>>

NextClients ==
    \/ ExecuteTool("code_debugger", MsgPleaseDebug)
    \/ ExecuteScript(<<"1","+","1">>, TitlePrefix \o <<"g","e","n","e","r","a","l">>)
    \/ \E signature_valid \in BOOLEAN, handler_raises \in BOOLEAN :
          LineWebhook(signature_valid, handler_raises)
    \/ TelegramWebhook
    \/ \E token \in WebhookTokens, bot_raises \in BOOLEAN :
          WebhookRequest(token, bot_raises)

SpecClients == InitClients /\ [][NextClients]_vars

-----------------------------------------------------------------------------
(* Properties of the clients and the receivers (specification SpecClients) *)

\* C13: DevinAPI.execute_tool raises nothing and sends at most one request.
\* Without an API key it sends none and returns the configuration error; when
\* the request raises, or a 200 body cannot be parsed, it returns
\* {content: "An error occurred while trying to use the tool."}; on a status
\* other than 200 it returns {content: "Error executing tool: <status>"}.
C13_ExecuteTool ==
    call.fn = "execute_tool" =>
        /\ Len(call.requests) <= 1
        /\ ~StrTruthy(clients.devin_api_key) =>
              /\ call.requests = <<>>
              /\ call.ret = [content |-> DevinNoKeyMessage]
        /\ StrTruthy(clients.devin_api_key) =>
              /\ Len(call.requests) = 1
              /\ call.http.kind = "raises" => call.ret = [content |-> DevinErrorMessage]
              /\ (call.http.kind = "response" /\ call.http.status_code # 200) =>
                    call.ret = [content |-> DevinStatusPrefix
                                               \o IntToStr(call.http.status_code)]
              /\ (call.http.kind = "response" /\ call.http.status_code = 200
                    /\ call.http.body.kind = "invalid") =>
                    call.ret = [content |-> DevinErrorMessage]

\* C13 witness: with a key set, a 500 answer with a well-formed body came back
\* as the status error.
C13_Witness ==
    /\ call.fn = "execute_tool"
    /\ StrTruthy(clients.devin_api_key)
    /\ call.http.kind = "response" /\ call.http.status_code = 500
    /\ call.http.body.kind = "object"
    /\ call.ret = [content |-> DevinStatusPrefix \o <<"5","0","0">>]

\* the response reports success: status 200 and a body object whose success
\* field is true in Python's sense
ReportsSuccess(http) ==
    /\ http.kind = "response"
    /\ http.status_code = 200
    /\ http.body.kind = "object"
    /\ "success" \in DOMAIN http.body.data
    /\ Truthy(http.body.data.success)

\* C14: GASClient.execute_script raises nothing and returns
\* {success: True, result} or {success: False, error}. success is True
\* exactly when key and URL are set, the one request gets status 200 and the
\* body's success field is truthy. Without key or URL no request is sent. When
\* the request raises, the error contains the exception's message. When the
\* body is an object that does not report success, the error is the body's
\* error field if it has one, and "HTTP <status>: <body text>" if it has none.
C14_ExecuteScript ==
    call.fn = "execute_script" =>
        LET configured == StrTruthy(clients.gas_api_key) /\ StrTruthy(clients.gas_api_url)
        IN /\ \/ call.ret.success = TRUE /\ DOMAIN call.ret = {"success", "result"}
              \/ call.ret.success = FALSE /\ DOMAIN call.ret = {"success", "error"}
           /\ call.ret.success = (configured /\ ReportsSuccess(call.http))
           /\ Len(call.requests) = IF configured THEN 1 ELSE 0
           /\ (configured /\ call.http.kind = "raises") =>
                 StrContains(call.ret.error, ExceptionMessage)
           /\ (configured /\ call.http.kind = "response" /\ call.http.body.kind = "object"
                 /\ ~ReportsSuccess(call.http)) =>
                 call.ret.error =
                    IF "error" \in DOMAIN call.http.body.data
                    THEN call.http.body.data.error
                    ELSE HttpPrefix \o IntToStr(call.http.status_code) \o <<":", " ">>
                            \o BodyText

\* C14 witness: a 500 answer whose body says success true was returned as a
\* failure with the body's error field.
C14_Witness ==
    /\ call.fn = "execute_script"
    /\ call.requests # <<>>
    /\ call.http.kind = "response" /\ call.http.status_code = 500
    /\ call.http.body.kind = "object"
    /\ DictGet(call.http.body.data, "success", JsonNull) = JsonTrue
    /\ call.ret = [success |-> FALSE, error |-> <<"e","r","r">>]

\* C16: LineBot.handle_webhook raises nothing; it returns True exactly when
\* the handler is initialized and handler.handle(body, signature) completes,
\* and False when the handler is not initialized, the signature is invalid or
\* handler.handle raises another exception.
C16_LineWebhook ==
    call.fn = "line_webhook" =>
        /\ ~call.raised
        /\ call.ret = (clients.line_handler /\ call.signature_valid /\ ~call.handler_raises)
        /\ call.handle_calls = IF clients.line_handler THEN 1 ELSE 0

\* C16 witness: with the handler initialized and a valid signature, an event
\* handler raised and handle_webhook returned False.
C16_Witness ==
    /\ call.fn = "line_webhook"
    /\ clients.line_handler /\ call.signature_valid /\ call.handler_raises
    /\ call.ret = FALSE /\ call.handle_calls = 1

C28_StatusCodes ==
    call.fn = "webhook" =>
        IF call.token # clients.telegram_bot_token
        THEN call.status_code = 401 /\ call.handle_webhook_calls = 0
        ELSE /\ call.handle_webhook_calls = 1
             /\ call.status_code = IF call.handled.raised THEN 500
                                   ELSE IF call.handled.ret THEN 200
                                   ELSE 400
             /\ call.status_code = 400 => call.text = "Invalid request"
             /\ call.status_code = 200 => call.text = "ok"

-----------------------------------------------------------------------------
(* OpenAIAssistant.process_message, one API call a step. `oa` holds the      *)
(* assistant's fields, the call's local variables and position, and what the *)
(* API has been asked to do.                                                 *)

MaxPolls == 2

\* the fixed Japanese replies of process_message; their characters are not
\* modelled one by one
AssistantUnavailableMessage == <<"[the assistant is not available]">>
AssistantRunErrorMessage == <<"[error while generating the answer]">>
AssistantNoMessagesMessage == <<"[no answer found]">>
AssistantNoContentMessage == <<"[there was no answer]">>
AssistantErrorMessage == <<"[error while talking to the assistant]">>

\* the id the API gives the thread it creates
NewThreadId == <<"t","h","r","e","a","d","-","n","e","w">>

\* the id of a thread of an earlier exchange
OldThreadId == <<"t","h","r","e","a","d","-","o","l","d">>

AssistantId == <<"a","s","s","t">>

\* the conversation states process_message is given
AssistantStates ==
    { EmptyDict,
      [user_id |-> "u1", context |-> <<>>, intent |-> NoneDict],
      [openai_thread_id |-> OldThreadId],
      [openai_thread_id |-> NoneStr],
      [user_id |-> "u1", openai_thread_id |-> OldThreadId] }

\* run.status values: the four that end _wait_for_run, and three that do not
TerminalStatuses == {"completed", "failed", "cancelled", "expired"}
PendingStatuses == {"queued", "in_progress", "requires_action", "cancelling", "incomplete"}

\* the statuses the service may give a run next. A run that waits for tool
\* outputs gets none from this client and expires; completed, failed,
\* cancelled, expired and incomplete are final.
RunTransitions(status) ==
    CASE status = "queued" -> {"in_progress", "cancelling", "failed", "expired"}
      [] status = "in_progress" -> {"completed", "failed", "requires_action", "cancelling",
                                    "incomplete", "expired"}
      [] status = "requires_action" -> {"expired", "cancelling"}
      [] status = "cancelling" -> {"cancelled"}
      [] OTHER -> {}

\* what threads.messages.list(order="desc", limit=1) answers: no message, a
\* message without content, a message whose first content block is no text
\* block (reading .text raises), or a message with a text
ListOutcomes ==
    { [kind |-> "raises"], [kind |-> "empty"], [kind |-> "no_content"],
      [kind |-> "not_text"], [kind |-> "text", value |-> <<"4","2">>] }

\* a state update that forgets the thread id
WithThreadIdForgotten(state, thread_id) == state

\* {**conversation_state, "openai_thread_id": thread_id}
WithThreadId(state, thread_id) == MergeDict(state, [openai_thread_id |-> thread_id])

\* an assistant between calls
IdleAssistant(is_available, assistant_id) ==
    [is_available |-> is_available, assistant_id |-> assistant_id,
     pc |-> "idle", message |-> NoneStr, conversation_state |-> NoneDict,
     thread_id |-> NoneStr,
     threads_created |-> 0,   \* threads.create calls that completed
     posts |-> <<>>,          \* threads.messages.create calls that completed
     runs |-> <<>>,           \* threads.runs.create calls that completed
     run |-> "none",          \* the status the service holds for the run
     polls |-> 0,             \* threads.runs.retrieve calls, counted up to MaxPolls
     run_status |-> "none",   \* the status _wait_for_run returned
     listed |-> [kind |-> "none"],
     result |-> NoneDict]

InitAssistant ==
    /\ chat_states = EmptyDict
    /\ clients = NoneDict
    /\ oa \in { IdleAssistant(a, i) : a \in BOOLEAN, i \in {NoneStr, AssistantId} }
    /\ max_context_length = DefaultMaxContextLength
    /\ conversation_state = EmptyState("u1")
    /\ turns = <<>>
    /\ exchanges = 0
    /\ call = NoCall
    /\ msg = <<>>
    /\ store = <<>>
    /\ store_up = FALSE
    /\ req = <<>>

\* the except branch of process_message: the state is returned as given
AssistantFailed ==
    [oa EXCEPT !.pc = "done",
               !.result = [message |-> AssistantErrorMessage,
                           conversation_state |-> oa.conversation_state]]

\* entry of process_message: the availability test and the look-up of the
\* thread id
AssistantStart(message) ==
    /\ oa.pc = "idle"
    /\ \E conversation_state_ \in AssistantStates :
       oa' = IF ~oa.is_available \/ ~StrTruthy(oa.assistant_id)
             THEN [oa EXCEPT !.pc = "done", !.message = message,
                             !.conversation_state = conversation_state_,
                             !.result = [message |-> AssistantUnavailableMessage,
                                         conversation_state |-> conversation_state_]]
             ELSE LET thread_id == DictGet(conversation_state_, "openai_thread_id", NoneStr)
                  IN [oa EXCEPT !.pc = IF StrTruthy(thread_id) THEN "post_message"
                                       ELSE "create_thread",
                                !.message = message,
                                !.conversation_state = conversation_state_,
                                !.thread_id = thread_id]
    /\ UNCHANGED <<chat_states, clients, max_context_length, conversation_state, turns, exchanges, call,
                   msg, store, store_up, req>>

\* thread = self.client.beta.threads.create(); thread_id = thread.id
AssistantCreateThread(ok) ==
    /\ oa.pc = "create_thread"
    /\ oa' = IF ok
             THEN [oa EXCEPT !.pc = "post_message", !.thread_id = NewThreadId,
                             !.threads_created = @ + 1]
             ELSE AssistantFailed
    /\ UNCHANGED <<chat_states, clients, max_context_length, conversation_state, turns, exchanges, call,
                   msg, store, store_up, req>>

\* self.client.beta.threads.messages.create(thread_id, role="user", content=message)
AssistantPostMessage(ok) ==
    /\ oa.pc = "post_message"
    /\ oa' = IF ok
             THEN [oa EXCEPT !.pc = "create_run",
                             !.posts = Append(@, [thread_id |-> oa.thread_id,
                                                  role |-> "user",
                                                  content |-> oa.message])]
             ELSE AssistantFailed
    /\ UNCHANGED <<chat_states, clients, max_context_length, conversation_state, turns, exchanges, call,
                   msg, store, store_up, req>>

\* run = self.client.beta.threads.runs.create(thread_id, assistant_id)
AssistantCreateRun(ok) ==
    /\ oa.pc = "create_run"
    /\ oa' = IF ok
             THEN [oa EXCEPT !.pc = "wait", !.run = "queued",
                             !.runs = Append(@, [thread_id |-> oa.thread_id,
                                                 assistant_id |-> oa.assistant_id])]
             ELSE AssistantFailed
    /\ UNCHANGED <<chat_states, clients, max_context_length, conversation_state, turns, exchanges, call,
                   msg, store, store_up, req>>

\* the service moves the run on while the caller waits
RunAdvance(status) ==
    /\ oa.pc = "wait"
    /\ status \in RunTransitions(oa.run)
    /\ oa' = [oa EXCEPT !.run = status]
    /\ UNCHANGED <<chat_states, clients, max_context_length, conversation_state, turns, exchanges, call,
                   msg, store, store_up, req>>

\* one turn of the loop of _wait_for_run: retrieve raises (status "raises"),
\* or returns the run with the status the service holds; a status of the
\* list of line 141 ends the loop, and process_message goes on to the listing
\* when it is "completed" and returns the run error otherwise; on any other
\* status the loop sleeps and retrieves again
AssistantPoll(status) ==
    /\ oa.pc = "wait"
    /\ status \in {oa.run, "raises"}
    /\ \E polls \in {IF oa.polls < MaxPolls THEN oa.polls + 1 ELSE oa.polls} :
        oa' = IF status = "raises" THEN [AssistantFailed EXCEPT !.polls = polls]
              ELSE IF status \in TerminalStatuses
              THEN IF status = "completed"
                   THEN [oa EXCEPT !.pc = "list", !.polls = polls, !.run_status = status]
                   ELSE [oa EXCEPT !.pc = "done", !.polls = polls, !.run_status = status,
                                   !.result = [message |-> AssistantRunErrorMessage,
                                               conversation_state |->
                                                  WithThreadId(oa.conversation_state,
                                                               oa.thread_id)]]
              ELSE [oa EXCEPT !.polls = polls]
    /\ UNCHANGED <<chat_states, clients, max_context_length, conversation_state, turns, exchanges, call,
                   msg, store, store_up, req>>

\* messages = self.client.beta.threads.messages.list(...) and the reading of
\* the answer
AssistantListMessages ==
    /\ oa.pc = "list"
    /\ \E listed \in ListOutcomes :
       oa' = IF listed.kind \in {"raises", "not_text"}
             THEN [AssistantFailed EXCEPT !.listed = listed]
             ELSE [oa EXCEPT !.pc = "done", !.listed = listed,
                             !.result =
                                [message |->
                                    CASE listed.kind = "empty" -> AssistantNoMessagesMessage
                                      [] listed.kind = "no_content" -> AssistantNoContentMessage
                                      [] listed.kind = "text" -> listed.value,
                                 conversation_state |->
                                    WithThreadId(oa.conversation_state, oa.thread_id)]]
    /\ UNCHANGED <<chat_states, clients, max_context_length, conversation_state, turns, exchanges, call,
                   msg, store, store_up, req>>

NextAssistant ==
    \/ \E message \in {MsgHi, MsgWhatTime} : AssistantStart(message)
    \/ \E ok \in BOOLEAN : AssistantCreateThread(ok)
    \/ \E ok \in BOOLEAN : AssistantPostMessage(ok)
    \/ \E ok \in BOOLEAN : AssistantCreateRun(ok)
    \/ \E status \in TerminalStatuses \cup PendingStatuses : RunAdvance(status)
    \/ \E status \in TerminalStatuses \cup PendingStatuses \cup {"raises"} :
          AssistantPoll(status)
    \/ AssistantListMessages

SpecAssistant == InitAssistant /\ [][NextAssistant]_vars

\* The same steps under the scheduling the code gives them: process_message
\* runs on once called, each API call returns, the loop of _wait_for_run
\* retrieves again after each sleep, and the service brings a run that is not
\* final to its next status. No API call is bound to raise.
AssistantProgress ==
    \/ \E ok \in BOOLEAN : AssistantCreateThread(ok)
    \/ \E ok \in BOOLEAN : AssistantPostMessage(ok)
    \/ \E ok \in BOOLEAN : AssistantCreateRun(ok)
    \/ \E status \in TerminalStatuses \cup PendingStatuses : RunAdvance(status)
    \/ AssistantPoll(oa.run)
    \/ AssistantListMessages

SpecAssistantLive == SpecAssistant /\ WF_vars(AssistantProgress)

-----------------------------------------------------------------------------
(* Properties of the assistant (specification SpecAssistant) *)

\* process_message was entered with a usable assistant
AssistantCalled ==
    /\ oa.pc # "idle"
    /\ oa.is_available /\ StrTruthy(oa.assistant_id)

\* the thread id the input state carries, None when it carries none
InputThreadId == DictGet(oa.conversation_state, "openai_thread_id", NoneStr)

\* the one thread of the call got the user's message and then one run with
\* the configured assistant id
PostedAndStarted ==
    /\ oa.posts = << [thread_id |-> oa.thread_id, role |-> "user", content |-> oa.message] >>
    /\ oa.runs = << [thread_id |-> oa.thread_id, assistant_id |-> oa.assistant_id] >>

C27_AlwaysReturns == (oa.pc # "idle") ~> (oa.pc = "done")

-----------------------------------------------------------------------------
(* examples/gas_assistant/telegram_gas_agent.py: the per-chat state of the *)
(* example agent. The application handles one update at a time, so each    *)
(* handler runs to its end as one step. A callback's data is held as the   *)
(* list data.split(":").                                                   *)

AgentChats == {"c1"}

\* GAS_API_KEY of the environment
EnvGasApiKey == <<"e","n","v">>

\* the texts a user sends
AgentTexts == { <<"k","e","y">>, <<"h","i">> }

\* ChatState(): the fields the handlers read
NewChatState ==
    [state |-> "idle", apiKey |-> EnvGasApiKey, lastRequest |-> NoneDict,
     lastResponse |-> NoneDict]

\* get_chat_state(chat_id): the chat's state, made when there is none
GetChatState(states, chat_id) ==
    IF chat_id \in DOMAIN states THEN states
    ELSE [c \in (DOMAIN states) \cup {chat_id} |->
            IF c = chat_id THEN NewChatState ELSE states[c]]

\* update_chat_state(chat_id, updates)
UpdateChatState(states, chat_id, updates) ==
    [GetChatState(states, chat_id) EXCEPT ![chat_id] = MergeDict(@, updates)]

\* what a run of process_request meets: the first reply fails, the
\* completion fails, or it answers (with a code section)
RequestOutcomes == {"reply_fails", "completion_fails", "code"}

\* process_request(update, context) with update.message.text = content;
\* content = NoneStr: the update has no message, and reading its text raises
ProcessRequest(states, chat_id, content, outcome) ==
    LET s1 == GetChatState(states, chat_id)
        s2 == [s1 EXCEPT ![chat_id].lastRequest = [content |-> content]]
    IN IF content = NoneStr \/ outcome = "reply_fails" THEN s1
       ELSE IF outcome = "completion_fails" THEN s2
       ELSE [s2 EXCEPT ![chat_id].lastResponse = [gasCode |-> <<"f","(",")">>]]

\* start(update, context)
AgentStartCommand(states, chat_id) ==
    UpdateChatState(states, chat_id,
                    [state |-> "idle", apiKey |-> EnvGasApiKey,
                     lastRequest |-> NoneDict, lastResponse |-> NoneDict])

\* cancel(update, context)
AgentCancelCommand(states, chat_id) ==
    LET s1 == GetChatState(states, chat_id)
    IN IF s1[chat_id].state = "idle" THEN s1
       ELSE UpdateChatState(s1, chat_id, [state |-> "idle"])

\* a handle_message that passes every text on to process_request
HandleMessageForwardsAll(states, chat_id, text, outcome) ==
    [states |-> ProcessRequest(GetChatState(states, chat_id), chat_id, text, outcome),
     forwarded |-> <<text>>]

\* handle_message(update, context) with update.message.text = text;
\* text = NoneStr: the update has no message (an edited message), and
\* reading update.message.text raises before the state is updated
\*   states:    chat_states afterwards
\*   forwarded: the texts passed to process_request
HandleMessage(states, chat_id, text, outcome) ==
    LET s1 == GetChatState(states, chat_id)
        chat_state == s1[chat_id]
    IN IF chat_state.state = "waiting_for_api_key"
       THEN IF text = NoneStr THEN [states |-> s1, forwarded |-> <<>>]
            ELSE [states |-> UpdateChatState(s1, chat_id,
                                             [apiKey |-> text, state |-> "idle"]),
                  forwarded |-> <<>>]
       ELSE IF chat_state.state = "waiting_for_code_edit"
       THEN IF chat_state.lastResponse # NoneDict
            THEN IF text = NoneStr THEN [states |-> s1, forwarded |-> <<>>]
                 ELSE
                 [states |-> UpdateChatState(s1, chat_id,
                                [lastResponse |->
                                    MergeDict(chat_state.lastResponse, [gasCode |-> text]),
                                 state |-> "idle"]),
                  forwarded |-> <<>>]
            ELSE [states |-> UpdateChatState(s1, chat_id, [state |-> "idle"]),
                  forwarded |-> <<>>]
       ELSE [states |-> ProcessRequest(s1, chat_id, text, outcome),
             forwarded |-> <<text>>]

\* the callback data of the buttons and one that no button carries
CallbackData ==
    { <<"set_api_key">>, <<"edit_code">>, <<"cancel_edit">>, <<"new_request">>,
      <<"execute_code">>, <<"copy_code">>, <<"sample_create_sheet">>,
      <<"action", "edit", "code">>, <<"action", "cancel", "edit">>,
      <<"action", "new_request">>, <<"action", "execute", "code">>,
      <<"action", "edit">>, <<"unknown">> }

\* the text of the sample request of a sample button
SampleText == <<"s","a","m","p","l","e">>

\* handle_callback_query(update, context) with query.data = data joined by
\* ":"; answered: query.answer returned
RECURSIVE HandleCallbackQuery(_, _, _, _, _)
HandleCallbackQuery(states, chat_id, data, answered, outcome) ==
    LET s1 == GetChatState(states, chat_id)
        part(i) == IF Len(data) >= i THEN data[i] ELSE "None"
        same == [states |-> s1, forwarded |-> <<>>]
        to(state) == [states |-> UpdateChatState(s1, chat_id, [state |-> state]),
                      forwarded |-> <<>>]
    IN IF ~answered THEN same
       ELSE IF Len(data) >= 2 /\ data[1] = "action"
       THEN IF part(2) = "edit" /\ part(3) = "code" THEN to("waiting_for_code_edit")
            ELSE IF part(2) = "new_request" THEN to("idle")
            ELSE IF part(2) = "cancel" /\ part(3) = "edit" THEN to("idle")
            ELSE same
       ELSE IF data = <<"set_api_key">> THEN to("waiting_for_api_key")
       ELSE IF data = <<"edit_code">> THEN to("waiting_for_code_edit")
       ELSE IF data = <<"cancel_edit">> THEN to("idle")
       ELSE IF data = <<"new_request">>
       THEN HandleCallbackQuery(s1, chat_id, <<"action", "new_request">>, answered, outcome)
       ELSE IF data = <<"sample_create_sheet">>
       THEN [states |-> ProcessRequest(s1, chat_id, SampleText, outcome),
             forwarded |-> <<SampleText>>]
       ELSE same

\* no handler has run
NoAgentCall ==
    [fn |-> "none", chat_id |-> "c1", text |-> NoneStr, data |-> <<>>,
     state_before |-> "idle", request_before |-> NoneDict, forwarded |-> <<>>]

\* the state of a chat as get_chat_state would give it
StateOf(states, chat_id) == GetChatState(states, chat_id)[chat_id].state

\* the last request of a chat as get_chat_state would give it
RequestOf(states, chat_id) == GetChatState(states, chat_id)[chat_id].lastRequest

InitAgent ==
    /\ chat_states = EmptyDict
    /\ clients = NoneDict
    /\ oa = NoneDict
    /\ max_context_length = DefaultMaxContextLength
    /\ conversation_state = EmptyState("u1")
    /\ turns = <<>>
    /\ exchanges = 0
    /\ call = NoAgentCall
    /\ msg = <<>>
    /\ store = <<>>
    /\ store_up = FALSE
    /\ req = <<>>

\* the /start command
AgentStart(chat_id) ==
    /\ chat_states' = AgentStartCommand(chat_states, chat_id)
    /\ call' = [NoAgentCall EXCEPT !.fn = "start", !.chat_id = chat_id,
                                   !.state_before = StateOf(chat_states, chat_id),
                                   !.request_before = RequestOf(chat_states, chat_id)]
    /\ UNCHANGED <<clients, oa, max_context_length, conversation_state, turns, exchanges,
                   msg, store, store_up, req>>

\* the /cancel command
AgentCancel(chat_id) ==
    /\ chat_states' = AgentCancelCommand(chat_states, chat_id)
    /\ call' = [NoAgentCall EXCEPT !.fn = "cancel", !.chat_id = chat_id,
                                   !.state_before = StateOf(chat_states, chat_id),
                                   !.request_before = RequestOf(chat_states, chat_id)]
    /\ UNCHANGED <<clients, oa, max_context_length, conversation_state, turns, exchanges,
                   msg, store, store_up, req>>

\* a text message that is no command
AgentMessage(chat_id, text, outcome) ==
    /\ \E r \in {HandleMessage(chat_states, chat_id, text, outcome)} :
          /\ chat_states' = r.states
          /\ call' = [NoAgentCall EXCEPT !.fn = "handle_message", !.chat_id = chat_id,
                                         !.text = text, !.forwarded = r.forwarded,
                                         !.state_before = StateOf(chat_states, chat_id),
                                         !.request_before = RequestOf(chat_states, chat_id)]
    /\ UNCHANGED <<clients, oa, max_context_length, conversation_state, turns, exchanges,
                   msg, store, store_up, req>>

\* a pressed button
AgentCallback(chat_id, data, answered, outcome) ==
    /\ \E r \in {HandleCallbackQuery(chat_states, chat_id, data, answered, outcome)} :
          /\ chat_states' = r.states
          /\ call' = [NoAgentCall EXCEPT !.fn = "handle_callback_query",
                                         !.chat_id = chat_id, !.data = data,
                                         !.forwarded = r.forwarded,
                                         !.state_before = StateOf(chat_states, chat_id),
                                         !.request_before = RequestOf(chat_states, chat_id)]
    /\ UNCHANGED <<clients, oa, max_context_length, conversation_state, turns, exchanges,
                   msg, store, store_up, req>>

NextAgent ==
    \E chat_id \in AgentChats :
        \/ AgentStart(chat_id)
        \/ AgentCancel(chat_id)
        \/ \E text \in AgentTexts \cup {NoneStr} :
           \E outcome \in IF StateOf(chat_states, chat_id) = "idle"
                          THEN RequestOutcomes ELSE {"code"} :
              AgentMessage(chat_id, text, outcome)
        \/ \E data \in CallbackData, answered \in BOOLEAN :
           \E outcome \in IF data = <<"sample_create_sheet">> /\ answered
                          THEN RequestOutcomes ELSE {"code"} :
              AgentCallback(chat_id, data, answered, outcome)

SpecAgent == InitAgent /\ [][NextAgent]_vars

-----------------------------------------------------------------------------
(* Properties of the example agent (specification SpecAgent) *)

\* the callbacks that ask for an API key or for edited code
LeavingCallbacks == { <<"set_api_key">>, <<"edit_code">>, <<"action", "edit", "code">> }

====
